---- MODULE Spec2Model ----
(***************************************************************************)
(* Model of the chamomile server core: the inbound router and the          *)
(* dispatcher of server.rs, the Global transitions of global.rs, and the   *)
(* peer registry (PeerList), the Buffer and the sessions they act on.      *)
(* PeerList, Buffer and Session are separate files of the crate; their     *)
(* operations are modelled from the specification's sections 4.3-4.5.      *)
(***************************************************************************)
EXTENDS Integers, Sequences, FiniteSets, TLC

\* ------------------------------------------------------------------ bounds
MaxPeer == 3            \* remote peer-ids are 1..MaxPeer
MaxReq == 2             \* most application requests in a run
MaxConn == 2            \* most accepted transport events in a run
MaxSess == 3            \* most session channels created in a run with requests
MainReq == 1            \* the same three budgets in the runs that combine
MainConn == 1           \*   every kind of request with every kind of event
MainSess == 2
RouterConn == 3         \* most accepted transport events in a run of the
                        \*   inbound router alone
MaxDataLen == 2         \* length of a request payload
MaxDeliveryLength == 3  \* largest configured delivery_length
MaxTime == 60           \* seconds of a run of the timers
MaxCallers == 3         \* concurrent callers of Global::trans_send

\* ------------------------------------------------------------- identities
peer_id == 0                       \* global.peer_id(): the local peer-id
PeerIds == 0..MaxPeer
Remotes == PeerIds \ {peer_id}
None == -1
SessIds == 1..MaxSess

\* Config: block_peer_list and blocklist (address filter).
BlockPeers == {3}
Addrs == {"a_ok", "a_blocked"}
BlockAddrs == {"a_blocked"}

\* Request payloads: the bytes 1..MaxDataLen.
Datas == {[i \in 1..MaxDataLen |-> i]}

Min(a, b) == IF a < b THEN a ELSE b

VARIABLES
    delivery_length, \* Config.delivery_length
    is_relay_data,   \* Global.is_relay_data = !Config.permission
    run,             \* the run's budget [req, conn, sess] and its request kinds and tids
    dht,             \* PeerList DHT index: peer-id -> session channel or None
    stables,         \* PeerList Stable index: peer-id -> [sess, direct] or NoStable
    connects,        \* Buffer Pending-connect: peer-id -> Seq of <<tid, data>>
    results,         \* Buffer Pending-result:  peer-id -> Seq of <<tid, data>>
    tmps,            \* Buffer Tmp: peer-id -> [sess, direct] or NoStable
    sessions,        \* session channels created so far: Seq of [peer, alive, inbox, op, v]
    tasks,           \* spawned connection tasks (direct_stable / relay_stable)
    out,             \* out_sender: messages sent to the application by the last step
    delivered,       \* tid -> number of Delivery receipts sent so far (capped at 2)
    dpc, dreq, dss,  \* dispatcher: position, request in hand, closest session ss
    rpc, rev,        \* inbound router: position, transport event in hand
    endpoint,        \* messages sent on endpoint_sender by the last step
    nReq, nConn,     \* requests received / transport events accepted so far
    issued,          \* the nonzero tids of the requests received so far
    last,            \* the event or request the last step received, if any
    now,             \* seconds since start()
    check_at,        \* deadline of the pending Check sleep
    clear_at,        \* deadline of the pending Clear sleep
    nCheck, nClear,  \* FutureResult::Check / Clear arms run so far
    nLost,           \* NetworkLost messages sent so far
    held,            \* the locks the dispatcher or the inbound router held while
                     \*   the last step awaited a send on a session channel
    transports,      \* Global.transports: transport kind -> send channel or None
    tpc,             \* callers of Global::trans_send: position, kind, channel used
    nListen,         \* transport kind -> listeners started by trans_send so far
    returned,        \* the call that returned in the last step: [fn, arg, val]
    given            \* the value handed to a conversion of types.rs: [type, v]

regVars == <<dht, stables>>
bufVars == <<connects, results, tmps>>
dispVars == <<dpc, dreq, dss, nReq, issued>>
routVars == <<rpc, rev, nConn>>
confVars == <<delivery_length, is_relay_data, run, given>>
timeVars == <<now, check_at, clear_at, nCheck, nClear, nLost>>
transVars == <<transports, tpc, nListen>>
vars == <<delivery_length, is_relay_data, run, dht, stables, connects, results, tmps, sessions,
          tasks, out, delivered, dpc, dreq, dss, rpc, rev, endpoint, nReq, nConn,
          issued, last, now, check_at, clear_at, nCheck, nClear, nLost, held,
          transports, tpc, nListen, returned, given>>

\* The sleeps of the two timer branches of select!, in seconds.
CheckSecs == 10
ClearSecs == 10

\* A new iteration of the inbound loop: select! builds both sleeps afresh.
Resleep ==
    /\ check_at' = now + CheckSecs
    /\ clear_at' = now + ClearSecs
    /\ UNCHANGED <<now, nCheck, nClear, nLost>>

\* TransportType, and the kind of the listener start() binds (Peer default).
TransportTypes == {"QUIC", "TCP", "RTP", "UDT"}
MainTransport == "QUIC"
Callers == 1..MaxCallers
NoCall == [pc |-> "idle", kind |-> MainTransport, chan |-> None]

NoStable == [sess |-> None, direct |-> FALSE]
NoReq == [kind |-> "none", tid |-> 0, to |-> peer_id, sock |-> FALSE,
          ok |-> FALSE, data |-> <<>>, broadcast |-> "none"]
NoEv == [addr |-> "a_ok", id |-> peer_id, is_self |-> FALSE, key_ok |-> FALSE]

NoLast == [is |-> "none", ev |-> NoEv, req |-> NoReq]
LastEv(ev) == [is |-> "event", ev |-> ev, req |-> NoReq]
LastReq(r) == [is |-> "request", ev |-> NoEv, req |-> r]

\* --------------------------------------------------------------- messages
SMsg(type, tid, ok, data) == [type |-> type, tid |-> tid, ok |-> ok, data |-> data]

\* ReceiveMessage::Delivery(kind, tid, success, prefix)
Delivery(kind, tid, ok, prefix) ==
    [type |-> "Delivery", kind |-> kind, tid |-> tid, ok |-> ok, data |-> prefix]

\* delivery_split!(data, length): the first `length` bytes of data.
delivery_split(data, length) == SubSeq(data, 1, Min(Len(data), length))

\* A receipt that carries the whole payload instead of its prefix: the
\* fault C27_DeliveryPrefix has to exclude.
OutDelivery_whole(o, kind, tid, ok, data) ==
    IF tid # 0 THEN Append(o, Delivery(kind, tid, ok, data)) ELSE o

\* global.out_send(Delivery(..)) guarded by `if tid != 0`.
OutDelivery(o, kind, tid, ok, data) ==
    IF tid # 0
    THEN Append(o, Delivery(kind, tid, ok, delivery_split(data, delivery_length)))
    ELSE o

\* Sender::send on a session channel; the result is ignored (`let _ =`), a
\* send to a channel whose receiver is gone loses the message.
SendTo(ss, s, m) ==
    IF ss[s].alive THEN [ss EXCEPT ![s].inbox = Append(@, m)] ELSE ss

\* The receipts counted per tid (the count stops at 2: "more than one").
RECURSIVE Tally(_, _)
Tally(dl, o) ==
    IF o = <<>> THEN dl
    ELSE Tally(IF Head(o).type = "Delivery"
               THEN [dl EXCEPT ![Head(o).tid] = Min(@ + 1, 2)] ELSE dl,
               Tail(o))

\* A step sends the messages o to the application.
Emit(o) == out' = o /\ delivered' = Tally(delivered, o)
Silent == Emit(<<>>)
\* Only the inbound router sends on an endpoint; only the two receive steps
\* take an input.
NoEndpoint == endpoint' = <<>>
NoInput == last' = NoLast
\* The step is no send of the dispatcher or the router to a session.
NoSend == held' = {}
Quiet == NoEndpoint /\ NoInput /\ NoSend

\* Result<()> of a Global call on peer p; no call returns in most steps.
NoRet == [fn |-> "none", arg |-> None, val |-> "none"]
Ret(fn, p, ok) == [fn |-> fn, arg |-> p, val |-> IF ok THEN "Ok" ELSE "Err"]
NoReturn == returned' = NoRet

\* ---------------------------------------------------------------- types.rs
\* No value is handed to a conversion.
NoGiven == [type |-> "none", v |-> None]

\* Result<T>: Ok(v), or the io error (ErrId for Result<PeerId>, ErrT for
\* Result<TransportType>).
Ok(v) == [ok |-> TRUE, v |-> v]
ErrId == [ok |-> FALSE, v |-> <<>>]
ErrT == [ok |-> FALSE, v |-> "none"]

PEER_ID_LENGTH == 32
\* `s.len() != 64` in from_hex.
HexLength == 64

LowerDigits == <<"0", "1", "2", "3", "4", "5", "6", "7", "8", "9",
                 "a", "b", "c", "d", "e", "f">>
UpperDigits == <<"0", "1", "2", "3", "4", "5", "6", "7", "8", "9",
                 "A", "B", "C", "D", "E", "F">>

\* format!("{:x?}", byte): lower-case hex without padding; the fault
\* C28_PeerIdRoundTrip has to exclude.
RECURSIVE to_hex_unpadded(_)
to_hex_unpadded(id) ==
    IF id = <<>> THEN <<>>
    ELSE (IF Head(id) < 16
          THEN <<LowerDigits[Head(id) + 1]>>
          ELSE <<LowerDigits[(Head(id) \div 16) + 1], LowerDigits[(Head(id) % 16) + 1]>>)
         \o to_hex_unpadded(Tail(id))

\* PeerId::to_hex: format!("{:02x?}", byte) for each byte, concatenated.
RECURSIVE to_hex(_)
to_hex(id) ==
    IF id = <<>> THEN <<>>
    ELSE <<LowerDigits[(Head(id) \div 16) + 1], LowerDigits[(Head(id) % 16) + 1]>>
         \o to_hex(Tail(id))

\* char::to_digit(16): the value of a hex digit of either case, else None.
to_digit(ch) ==
    IF \E d \in 1..16 : LowerDigits[d] = ch \/ UpperDigits[d] = ch
    THEN (CHOOSE d \in 1..16 : LowerDigits[d] = ch \/ UpperDigits[d] = ch) - 1
    ELSE None

\* The digits of from_str_radix folded into a number; None at a non-digit.
RECURSIVE radix16(_, _)
radix16(acc, ds) ==
    IF ds = <<>> THEN acc
    ELSE IF to_digit(Head(ds)) = None THEN None
    ELSE radix16(acc * 16 + to_digit(Head(ds)), Tail(ds))

\* u8::from_str_radix(src, 16): an optional '+' sign followed by at least
\* one digit; None for an empty string, a lone sign, a non-digit or a value
\* above u8::MAX.
from_str_radix(src) ==
    IF src = <<>> THEN None
    ELSE IF Len(src) = 1 /\ src[1] \in {"+", "-"} THEN None
    ELSE LET digits == IF src[1] = "+" THEN Tail(src) ELSE src
             n == radix16(0, digits)
         IN  IF n > 255 THEN None ELSE n

\* PeerId::from_hex: Err unless s.len() == 64; then each two-character group
\* goes through u8::from_str_radix(.., 16), Err at the first that fails.
from_hex(s) ==
    IF Len(s) # HexLength THEN ErrId
    ELSE LET value == [i \in 1..(Len(s) \div 2) |->
                          from_str_radix(SubSeq(s, 2 * i - 1, 2 * i))]
         IN  IF \E i \in 1..Len(value) : value[i] = None THEN ErrId ELSE Ok(value)

\* PeerId::as_bytes: the slice of the 32 bytes.
as_bytes(id) == [i \in 1..Len(id) |-> id[i]]

\* PeerId::from_bytes: Err unless bytes.len() == 32, else a copy.
from_bytes(bytes) ==
    IF Len(bytes) # 32 THEN ErrId
    ELSE Ok([i \in 1..PEER_ID_LENGTH |-> bytes[i]])

\* TransportType::to_byte
to_byte(t) ==
    CASE t = "QUIC" -> 0 [] t = "TCP" -> 1 [] t = "RTP" -> 2 [] t = "UDT" -> 3

\* A from_byte that wraps the byte into range instead of failing: the fault
\* C30_TransportRoundTrip has to exclude.
from_byte_wrapping(b) ==
    CASE b % 4 = 0 -> Ok("QUIC") [] b % 4 = 1 -> Ok("TCP")
      [] b % 4 = 2 -> Ok("RTP") [] b % 4 = 3 -> Ok("UDT")

\* TransportType::from_byte
from_byte(b) ==
    CASE b = 0 -> Ok("QUIC") [] b = 1 -> Ok("TCP")
      [] b = 2 -> Ok("RTP") [] b = 3 -> Ok("UDT")
      [] OTHER -> ErrT

\* TransportType::to_str
to_str(t) ==
    CASE t = "QUIC" -> "quic" [] t = "TCP" -> "tcp"
      [] t = "RTP" -> "rtp" [] t = "UDT" -> "udt"

\* TransportType::from_str
from_str(s) ==
    CASE s = "quic" -> "QUIC" [] s = "tcp" -> "TCP"
      [] s = "rtp" -> "RTP" [] s = "udt" -> "UDT"
      [] OTHER -> "QUIC"

\* The values the conversions are tried on. Peer ids: one id with each of a
\* few bytes set to each of a few values.
BaseId == [i \in 1..PEER_ID_LENGTH |-> (i * 37 + 11) % 256]
IdPositions == {1, 2, 17, PEER_ID_LENGTH}
ByteSamples == {0, 9, 10, 15, 16, 127, 128, 171, 255}
Ids == {[BaseId EXCEPT ![k] = b] : k \in IdPositions, b \in ByteSamples}

\* Hex strings: the encodings of the ids, the base encoding with one
\* character replaced, and strings of other lengths.
HexPositions == {1, 2, 33, 63, 64}
OddChars == {"+", "-", "g", "G", " ", "x", "A", "F"}
BaseHex == [i \in 1..HexLength |-> LowerDigits[((i * 7 + 3) % 16) + 1]]
HexInputs ==
    {to_hex(id) : id \in Ids}
    \cup {[BaseHex EXCEPT ![k] = ch] : k \in HexPositions, ch \in OddChars}
    \cup {SubSeq(BaseHex, 1, n) : n \in {0, 1, 2, 62, 63}}
    \cup {BaseHex \o SubSeq(BaseHex, 1, n) : n \in {1, 2, 64}}

\* Byte slices: the ids and slices of other lengths.
ByteInputs ==
    {as_bytes(id) : id \in Ids}
    \cup {SubSeq(BaseId, 1, n) : n \in {0, 1, 31}}
    \cup {BaseId \o SubSeq(BaseId, 1, n) : n \in {1, 32}}

StrInputs == {"quic", "tcp", "rtp", "udt", "QUIC", "Tcp", "", "ws", "udp"}

CodecInputs ==
    {[type |-> "id", v |-> id] : id \in Ids}
    \cup {[type |-> "hex", v |-> s] : s \in HexInputs}
    \cup {[type |-> "bytes", v |-> b] : b \in ByteInputs}
    \cup {[type |-> "transport", v |-> t] : t \in TransportTypes}
    \cup {[type |-> "byte", v |-> b] : b \in 0..255}
    \cup {[type |-> "str", v |-> s] : s \in StrInputs}

\* The conversion fn, called on the given value, returns val.
Convert(fn, val) ==
    /\ returned' = [fn |-> fn, arg |-> given.v, val |-> val]
    /\ out' = <<>> /\ delivered' = delivered
    /\ endpoint' = <<>> /\ last' = NoLast /\ held' = {}
    /\ UNCHANGED <<confVars, transVars, timeVars, regVars, bufVars, sessions, tasks,
                   dispVars, routVars>>

PeerToHex ==
    /\ given.type = "id"
    /\ Convert("to_hex", to_hex(given.v))
PeerFromHex ==
    /\ given.type = "hex"
    /\ Convert("from_hex", from_hex(given.v))
PeerAsBytes ==
    /\ given.type = "id"
    /\ Convert("as_bytes", as_bytes(given.v))
PeerFromBytes ==
    /\ given.type = "bytes"
    /\ Convert("from_bytes", from_bytes(given.v))
TransToByte ==
    /\ given.type = "transport"
    /\ Convert("to_byte", to_byte(given.v))
TransFromByte ==
    /\ given.type = "byte"
    /\ Convert("from_byte", from_byte(given.v))
TransToStr ==
    /\ given.type = "transport"
    /\ Convert("to_str", to_str(given.v))
TransFromStr ==
    /\ given.type = "str"
    /\ Convert("from_str", from_str(given.v))

\* ------------------------------------------------------ PeerList (registry)
RECURSIVE Xor(_, _)
Xor(a, b) ==
    IF a = 0 /\ b = 0 THEN 0
    ELSE (((a % 2) + (b % 2)) % 2) + 2 * Xor(a \div 2, b \div 2)

InDht(d, p) == d[p] # None
InStable(st, p) == st[p].sess # None

\* DHT search: the closest known DHT peer by XOR distance.
Closest(d, p) ==
    CHOOSE q \in PeerIds : InDht(d, q)
        /\ \A r \in PeerIds : InDht(d, r) => Xor(q, p) <= Xor(r, p)

\* PeerList::get(id): [found, sess, is_it]
get(d, st, p) ==
    IF InStable(st, p) THEN [found |-> TRUE, sess |-> st[p].sess, is_it |-> TRUE]
    ELSE IF InDht(d, p) THEN [found |-> TRUE, sess |-> d[p], is_it |-> TRUE]
    ELSE IF \E q \in PeerIds : InDht(d, q)
         THEN [found |-> TRUE, sess |-> d[Closest(d, p)], is_it |-> FALSE]
         ELSE [found |-> FALSE, sess |-> None, is_it |-> FALSE]

is_block_addr(a) == a \in BlockAddrs
is_block_peer(p) == p \in BlockPeers

\* PeerList::is_relay(id): the session of a Stable-relay entry.
is_relay(st, p) == IF InStable(st, p) /\ ~st[p].direct THEN st[p].sess ELSE None

\* PeerList::is_empty(): no DHT and no Stable entry.
is_empty(d, st) == \A p \in PeerIds : ~InDht(d, p) /\ ~InStable(st, p)

\* PeerList::add_dht(kv): false (and no change) if blocked or already present.
add_dht_ok(d, st, p) == ~is_block_peer(p) /\ ~InDht(d, p) /\ ~InStable(st, p)
add_dht(d, st, p, v) == IF add_dht_ok(d, st, p) THEN [d EXCEPT ![p] = v] ELSE d

\* PeerList::dht_to_stable(id): Ok iff id is in the DHT; keeps the handles.
dht_to_stable_dht(d, p) == [d EXCEPT ![p] = None]
dht_to_stable_st(d, st, p) ==
    IF InDht(d, p) THEN [st EXCEPT ![p] = [sess |-> d[p], direct |-> TRUE]] ELSE st

\* PeerList::add_stable(id, kv, is_direct): into Stable; if already DHT,
\* promoted via dht_to_stable.
add_stable_dht(d, p) == dht_to_stable_dht(d, p)
add_stable_st(d, st, p, v, dir) ==
    IF InDht(d, p) THEN dht_to_stable_st(d, st, p)
    ELSE [st EXCEPT ![p] = [sess |-> v, direct |-> dir]]

\* PeerList::stable_to_dht(id): Ok iff id is Stable; keeps the handles.
stable_to_dht_dht(d, st, p) ==
    IF InStable(st, p) THEN [d EXCEPT ![p] = st[p].sess] ELSE d
stable_to_dht_st(st, p) == [st EXCEPT ![p] = NoStable]

\* ----------------------------------------------------------------- Buffer
\* Buffer::add_connect / add_result: true iff an entry already existed; the
\* (tid, data) pair is queued under the peer either way.
had_entry(m, p) == m[p] # <<>>
add_entry(m, p, tid, data) == [m EXCEPT ![p] = Append(@, <<tid, data>>)]
\* Buffer::remove_connect / remove_result
remove_entry(m, p) == [m EXCEPT ![p] = <<>>]
\* Buffer::get_tmp_session(id)
get_tmp_session(t, p) == t[p].sess
\* Buffer::add_tmp / remove_tmp
buf_add_tmp(t, p, v, dir) == [t EXCEPT ![p] = [sess |-> v, direct |-> dir]]
remove_tmp(t, p) == [t EXCEPT ![p] = NoStable]

\* ------------------------------------------------------------------- Init
\* TransportRecvMessage(addr, RemotePublic(remote_key, ..), is_self, ..):
\* addr is the observed address, id the peer-id derived from remote_key,
\* is_self whether the stream answers a locally initiated Connect, key_ok
\* whether session-key completion succeeds.
Events == [addr : Addrs, id : PeerIds, is_self : BOOLEAN, key_ok : BOOLEAN]

AllKinds == {"StableConnect", "StableResult", "Data"}

\* The state after start(): empty registry and buffer, no session, both
\* tasks waiting. b is the run's budget, dls the configured lengths tried,
\* perms the values of Config.permission tried, inputs the values handed to
\* the conversions.
InitGiven(b, dls, perms, inputs) ==
    /\ delivery_length \in dls
    /\ is_relay_data \in {~permission : permission \in perms}
    /\ run = b
    /\ dht = [p \in PeerIds |-> None]
    /\ stables = [p \in PeerIds |-> NoStable]
    /\ connects = [p \in PeerIds |-> <<>>]
    /\ results = [p \in PeerIds |-> <<>>]
    /\ tmps = [p \in PeerIds |-> NoStable]
    /\ sessions = <<>>
    /\ tasks = {}
    /\ out = <<>>
    /\ delivered = [t \in 1..MaxReq |-> 0]
    /\ dpc = "idle" /\ dreq = NoReq /\ dss = None /\ nReq = 0 /\ issued = {}
    /\ rpc = "idle" /\ rev = NoEv /\ endpoint = <<>> /\ nConn = 0
    /\ last = NoLast
    /\ now = 0 /\ check_at = CheckSecs /\ clear_at = ClearSecs
    /\ nCheck = 0 /\ nClear = 0 /\ nLost = 0
    /\ held = {}
    /\ transports = [k \in TransportTypes |-> IF k = MainTransport THEN 0 ELSE None]
    /\ tpc = [c \in Callers |-> NoCall]
    /\ nListen = [k \in TransportTypes |-> 0]
    /\ returned = NoRet
    /\ given \in inputs

\* The state after start() when no conversion is called.
InitWith(b, dls, perms) == InitGiven(b, dls, perms, {NoGiven})

\* Events of remotes that dial in from an unblocked address with a good key.
Dials == {e \in Events : ~is_block_addr(e.addr) /\ e.key_ok /\ ~e.is_self}

StableKinds == {"StableConnect", "StableResult"}

\* Main run: any request, any event, every configured delivery_length.
Init ==
    InitWith([req |-> MainReq, conn |-> MainConn, sess |-> MainSess,
              kinds |-> AllKinds, tids |-> BOOLEAN, events |-> Events],
             0..MaxDeliveryLength, {FALSE})

\* Router run: no request, every event, more connections and sessions.
InitRouter ==
    InitWith([req |-> 0, conn |-> RouterConn, sess |-> MaxSess,
              kinds |-> AllKinds, tids |-> BOOLEAN, events |-> Events],
             {MaxDeliveryLength}, {FALSE})

\* Registry run: one untracked StableConnect, dial-in events.
InitRegistry ==
    InitWith([req |-> MainReq, conn |-> MaxConn, sess |-> MaxSess,
              kinds |-> {"StableConnect"}, tids |-> {FALSE}, events |-> Dials],
             {MaxDeliveryLength}, {FALSE})

\* Pending run: several tracked stable requests, dial-in events.
InitPending ==
    InitWith([req |-> MaxReq, conn |-> MainConn, sess |-> MainSess,
              kinds |-> StableKinds, tids |-> {TRUE}, events |-> Dials],
             {MaxDeliveryLength}, {FALSE})

CastKinds == {"Data", "StableDisconnect", "Broadcast"}

\* Global run: one untracked stable request, dial-in events.
InitGlobal ==
    InitWith([req |-> MainReq, conn |-> MainConn, sess |-> MaxSess,
              kinds |-> StableKinds, tids |-> {FALSE}, events |-> Dials],
             {MaxDeliveryLength}, {FALSE})

\* Conversion run: one value is handed to the conversions of types.rs.
InitCodec ==
    InitGiven([req |-> 0, conn |-> 0, sess |-> 0,
               kinds |-> {}, tids |-> {}, events |-> {}],
              {MaxDeliveryLength}, {FALSE}, CodecInputs)

\* Live run: remotes that are refused keep dialling while time passes.
InitLive ==
    InitWith([req |-> 0, conn |-> MainConn, sess |-> 0,
              kinds |-> {}, tids |-> {}, events |-> Events \ Dials],
             {MaxDeliveryLength}, {FALSE})

\* Timer run: no request and no transport event, only time passes.
InitTimer ==
    InitWith([req |-> 0, conn |-> 0, sess |-> 0,
              kinds |-> {}, tids |-> {}, events |-> {}],
             0..MaxDeliveryLength, BOOLEAN)

\* Transport run: only callers of trans_send.
InitTrans ==
    InitWith([req |-> 0, conn |-> 0, sess |-> 0,
              kinds |-> {}, tids |-> {}, events |-> {}],
             {MaxDeliveryLength}, {FALSE})

\* Health run: time passes while remotes dial in and sessions close.
InitHealth ==
    InitWith([req |-> 0, conn |-> MainConn, sess |-> MainSess,
              kinds |-> {}, tids |-> {}, events |-> Dials],
             {MaxDeliveryLength}, {FALSE})

\* Cast run: Data, StableDisconnect and Broadcast requests, dial-in events,
\* permissioned and permissionless.
InitCast ==
    InitWith([req |-> MainReq, conn |-> MainConn, sess |-> MainSess,
              kinds |-> CastKinds, tids |-> BOOLEAN, events |-> Dials],
             {MaxDeliveryLength}, BOOLEAN)

NewSession(p) ==
    [peer |-> p, alive |-> TRUE, inbox |-> <<>>, op |-> "idle", v |-> NoStable]


\* ---------------------------------------------------------- inbound router

\* Steps 1-2 without the comparison with the own peer-id: the fault
\* C17_NeverSelf has to exclude.
RouterRefused_self_passes(ev) ==
    is_block_addr(ev.addr) \/ is_block_peer(ev.id)

\* Steps 1-2: blocked address, self, or blocked peer.
RouterRefused(ev) ==
    is_block_addr(ev.addr) \/ ev.id = peer_id \/ is_block_peer(ev.id)

\* The replies of a router that completes the session key (step 3) before
\* the block checks (steps 1-2): the fault C3_RefusedBeforeKey has to exclude.
RouterReply_key_first(ev) ==
    IF ~ev.key_ok THEN <<"Close">>
    ELSE IF ev.is_self
    THEN (IF RouterRefused(ev) THEN <<"Close">> ELSE <<>>)
    ELSE (IF RouterRefused(ev) THEN <<"Handshake", "Close">> ELSE <<"Handshake">>)

\* Steps 1-3: what the router sends on endpoint_sender before step 4.
\* complete() on a half-open key sends nothing; complete_remote answers with
\* Handshake(remote_pk); any negative check answers with Close.
RouterReply(ev) ==
    IF RouterRefused(ev) THEN <<"Close">>
    ELSE IF ~ev.key_ok THEN <<"Close">>
    ELSE IF ev.is_self THEN <<>> ELSE <<"Handshake">>

\* A router that goes on to step 4 although the key did not complete: the
\* fault C18_KeyFailureCloses has to exclude.
RouterPassed_any_key(ev) == ~RouterRefused(ev)

RouterPassed(ev) == ~RouterRefused(ev) /\ ev.key_ok

\* A router without step 4: the fault C5_RelayUpgrade has to exclude.
RouterRelay_skipped(ev) == None

\* Step 4: peer_list.read().is_relay(&remote_id).
RouterRelay(ev) == is_relay(stables, ev.id)

\* Steps 1-4 of the Trans arm for event ev: checks, key completion, is_relay.
RouteOne(ev) ==
    /\ rpc = "idle" /\ nConn < run.conn
    /\ ev \in run.events
    /\ (RouterPassed(ev) /\ RouterRelay(ev) = None) => Len(sessions) < run.sess
    /\ last' = LastEv(ev)
    /\ nConn' = IF RouterPassed(ev) THEN nConn + 1 ELSE nConn
    /\ endpoint' = RouterReply(ev)
    /\ IF ~RouterPassed(ev)
       THEN rpc' = "idle" /\ rev' = NoEv /\ UNCHANGED sessions
       ELSE IF RouterRelay(ev) # None
       THEN /\ sessions' = SendTo(sessions, RouterRelay(ev),
                                  SMsg("DirectIncoming", 0, FALSE, <<>>))
            /\ rpc' = "idle" /\ rev' = NoEv
       ELSE rpc' = "add" /\ rev' = ev /\ UNCHANGED sessions
    \* `if let Some(ss) = peer_list.read().await.is_relay(..) { ss.send(..).await }`
    /\ held' = IF RouterPassed(ev) /\ RouterRelay(ev) # None THEN {"peer_list"} ELSE {}
    /\ Silent
    /\ Resleep
    /\ NoReturn
    /\ UNCHANGED <<confVars, transVars, regVars, bufVars, tasks, dispVars>>

RouterRecv == \E ev \in Events : RouteOne(ev)

\* Steps 5-7: new_session_channel, add_dht, Close or DHT reply + session_spawn.
RouterAdd ==
    /\ rpc = "add"
    /\ IF add_dht_ok(dht, stables, rev.id)
       THEN /\ dht' = add_dht(dht, stables, rev.id, Len(sessions) + 1)
            /\ sessions' = Append(sessions, NewSession(rev.id))
            /\ endpoint' = <<"DHT">>
       ELSE /\ endpoint' = <<"Close">>
            /\ UNCHANGED <<dht, sessions>>
    /\ rpc' = "idle" /\ rev' = NoEv
    /\ Silent /\ NoInput /\ NoSend
    /\ Resleep
    /\ NoReturn
    /\ UNCHANGED <<confVars, transVars, stables, bufVars, tasks, dispVars, nConn>>

\* ------------------------------------------------------------- dispatcher
\* SendMessage requests. The n-th request carries tid 0 or the fresh tid n.
Requests(n) ==
    [kind : {"StableConnect"}, tid : {0, n}, to : PeerIds, sock : BOOLEAN,
     ok : {FALSE}, data : Datas, broadcast : {"none"}]
    \cup [kind : {"StableResult"}, tid : {0, n}, to : PeerIds, sock : BOOLEAN,
          ok : BOOLEAN, data : Datas, broadcast : {"none"}]
    \cup [kind : {"Data"}, tid : {0, n}, to : PeerIds, sock : {FALSE},
          ok : {FALSE}, data : Datas, broadcast : {"none"}]
    \cup [kind : {"StableDisconnect"}, tid : {0}, to : PeerIds, sock : {FALSE},
          ok : {FALSE}, data : {<<>>}, broadcast : {"none"}]
    \cup [kind : {"Broadcast"}, tid : {0}, to : {peer_id}, sock : {FALSE},
          ok : {FALSE}, data : Datas, broadcast : {"StableAll", "Gossip"}]

\* The message a request becomes on a session channel.
ReqMsg(r) == SMsg(r.kind, r.tid, r.ok, r.data)

\* The connection task the dispatcher spawns for request r: direct_stable if
\* to.effective_socket(), else relay_stable through the closest session ss.
SpawnTask(r, ss, n) ==
    [kind |-> IF r.sock THEN "direct_stable" ELSE "relay_stable",
     origin |-> r.kind, to |-> r.to, tid |-> r.tid,
     delivery |-> delivery_split(r.data, delivery_length),
     via |-> IF r.sock THEN None ELSE ss, n |-> n]

\* `continue` / end of the arm: back to self_receiver.recv().
DispDone == dpc' = "idle" /\ dss' = None /\ dreq' = NoReq

\* The failed receipt of a request, sent only `if tid != 0`.
FailDelivery(r) == OutDelivery(<<>>, r.kind, r.tid, FALSE, r.data)

\* A StableConnect arm that treats an empty lookup like an inexact one and
\* goes on to the buffer: the fault C6_UnknownFails has to exclude.
DispStableConnect_unknown_pends(r) ==
    IF r.to = peer_id
    THEN Emit(FailDelivery(r)) /\ DispDone /\ UNCHANGED sessions
    ELSE LET g == get(dht, stables, r.to) IN
         IF g.found /\ g.is_it
         THEN /\ sessions' = SendTo(sessions, g.sess, ReqMsg(r))
              /\ DispDone /\ Silent
         ELSE /\ dpc' = "sc_tmp" /\ dss' = g.sess /\ dreq' = r
              /\ Silent /\ UNCHANGED sessions

\* A StableConnect arm that fails an inexact lookup like an empty one: the
\* behaviour C7_InexactRouted has to exclude.
DispStableConnect_inexact_fails(r) ==
    IF r.to = peer_id
    THEN Emit(FailDelivery(r)) /\ DispDone /\ UNCHANGED sessions
    ELSE LET g == get(dht, stables, r.to) IN
         IF g.found /\ g.is_it
         THEN /\ sessions' = SendTo(sessions, g.sess, ReqMsg(r))
              /\ DispDone /\ Silent
         ELSE Emit(FailDelivery(r)) /\ DispDone /\ UNCHANGED sessions

\* SendMessage::StableConnect, up to the registry lookup.
DispStableConnect(r) ==
    IF r.to = peer_id
    THEN Emit(FailDelivery(r)) /\ DispDone /\ UNCHANGED sessions
    ELSE LET g == get(dht, stables, r.to) IN
         IF ~g.found
         THEN Emit(FailDelivery(r)) /\ DispDone /\ UNCHANGED sessions
         ELSE IF g.is_it
         THEN /\ sessions' = SendTo(sessions, g.sess, ReqMsg(r))
              /\ DispDone /\ Silent
         ELSE /\ dpc' = "sc_tmp" /\ dss' = g.sess /\ dreq' = r
              /\ Silent /\ UNCHANGED sessions

\* A StableResult arm without the check for self: the fault
\* C10_SelfFails has to exclude.
DispStableResult_no_self_check(r) ==
    IF get_tmp_session(tmps, r.to) # None
    THEN /\ sessions' = SendTo(sessions, get_tmp_session(tmps, r.to), ReqMsg(r))
         /\ DispDone /\ Silent
    ELSE /\ dpc' = "sr_get" /\ dss' = None /\ dreq' = r
         /\ Silent /\ UNCHANGED sessions

\* SendMessage::StableResult, up to the first get_tmp_session.
DispStableResult(r) ==
    IF r.to = peer_id
    THEN Emit(FailDelivery(r)) /\ DispDone /\ UNCHANGED sessions
    ELSE IF get_tmp_session(tmps, r.to) # None
    THEN /\ sessions' = SendTo(sessions, get_tmp_session(tmps, r.to), ReqMsg(r))
         /\ DispDone /\ Silent
    ELSE /\ dpc' = "sr_get" /\ dss' = None /\ dreq' = r
         /\ Silent /\ UNCHANGED sessions

\* A loopback Data cut to delivery_length like a receipt: the fault
\* C11_SelfLoopback has to exclude.
DataMsg_split(from, data) ==
    [type |-> "Data", from |-> from, data |-> delivery_split(data, delivery_length)]

\* ReceiveMessage::Data(from, data)
DataMsg(from, data) == [type |-> "Data", from |-> from, data |-> data]

\* SendMessage::Data
DispData(r) ==
    /\ DispDone
    /\ IF r.to = peer_id
       THEN /\ Emit(Append(OutDelivery(<<>>, "Data", r.tid, TRUE, r.data),
                           DataMsg(r.to, r.data)))
            /\ UNCHANGED sessions
       ELSE LET g == get(dht, stables, r.to) IN
            IF g.found
            THEN /\ sessions' = SendTo(sessions, g.sess,
                        IF g.is_it THEN ReqMsg(r)
                        ELSE SMsg("RelayData", 0, FALSE, r.data))
                 /\ Silent
            ELSE Emit(FailDelivery(r)) /\ UNCHANGED sessions

\* SessionMessage::Close
CloseMsg == SMsg("Close", 0, FALSE, <<>>)

\* SendMessage::StableDisconnect
DispStableDisconnect(r) ==
    /\ DispDone /\ Silent
    /\ LET g == get(dht, stables, r.to) IN
       sessions' = IF g.found /\ g.is_it
                   THEN SendTo(sessions, g.sess, CloseMsg)
                   ELSE sessions

\* PeerList::stable_all and PeerList::all: the peers whose senders the
\* registry hands out, and the sender of each.
stable_all(st) == {p \in PeerIds : InStable(st, p)}
all(d, st) == {p \in PeerIds : InDht(d, p) \/ InStable(st, p)}
sender(d, st, p) == IF InStable(st, p) THEN st[p].sess ELSE d[p]

\* `for (..) in ps { sender.send(m) }`
RECURSIVE SendAll(_, _, _)
SendAll(ss, ps, m) ==
    IF ps = {} THEN ss
    ELSE LET p == CHOOSE q \in ps : \A o \in ps : q <= o
         IN  SendAll(SendTo(ss, sender(dht, stables, p), m), ps \ {p}, m)

\* A Broadcast arm that sends to every registry entry whatever the kind, and
\* one that sends to Stable entries only: the faults C14_StableAll and
\* C15_Gossip have to exclude.
DispBroadcast_always_all(r) ==
    /\ DispDone /\ Silent
    /\ sessions' = SendAll(sessions, all(dht, stables), SMsg("Data", 0, FALSE, r.data))

DispBroadcast_always_stable(r) ==
    /\ DispDone /\ Silent
    /\ sessions' = SendAll(sessions, stable_all(stables), SMsg("Data", 0, FALSE, r.data))

\* SendMessage::Broadcast
DispBroadcast(r) ==
    /\ DispDone /\ Silent
    /\ sessions' = SendAll(sessions,
                           IF r.broadcast = "StableAll"
                           THEN stable_all(stables) ELSE all(dht, stables),
                           SMsg("Data", 0, FALSE, r.data))

\* The lock guard alive at the session send of the first part of r's arm:
\* peer_list_lock is dropped after s.send(..).await, and the guards made in
\* the head of an `if let` or a `for` live to the end of its block.
DispHeld(r) ==
    LET g == get(dht, stables, r.to) IN
    CASE r.kind = "StableConnect" ->
            IF r.to # peer_id /\ g.found /\ g.is_it THEN {"peer_list"} ELSE {}
      [] r.kind = "StableResult" ->
            IF r.to # peer_id /\ get_tmp_session(tmps, r.to) # None
            THEN {"buffer"} ELSE {}
      [] r.kind = "Data" ->
            IF r.to # peer_id /\ g.found THEN {"peer_list"} ELSE {}
      [] r.kind = "StableDisconnect" ->
            IF g.found /\ g.is_it THEN {"peer_list"} ELSE {}
      [] r.kind = "Broadcast" ->
            IF (IF r.broadcast = "StableAll"
                THEN stable_all(stables) ELSE all(dht, stables)) # {}
            THEN {"peer_list"} ELSE {}

\* self_receiver.recv() yields request r; the first part of its arm.
DispatchOne(r) ==
    /\ dpc = "idle" /\ nReq < run.req
    /\ r \in Requests(nReq + 1) /\ r.kind \in run.kinds /\ (r.tid # 0) \in run.tids
    /\ nReq' = nReq + 1
    /\ issued' = IF r.tid # 0 THEN issued \cup {r.tid} ELSE issued
    /\ CASE r.kind = "StableConnect" -> DispStableConnect(r)
         [] r.kind = "StableResult" -> DispStableResult(r)
         [] r.kind = "Data" -> DispData(r)
         [] r.kind = "StableDisconnect" -> DispStableDisconnect(r)
         [] r.kind = "Broadcast" -> DispBroadcast(r)
    /\ held' = DispHeld(r)
    /\ NoEndpoint /\ last' = LastReq(r)
    /\ NoReturn
    /\ UNCHANGED <<confVars, transVars, timeVars, regVars, bufVars, tasks, routVars>>

DispRecv == \E r \in Requests(nReq + 1) : DispatchOne(r)

\* StableConnect step 3: get_tmp_session under the buffer read lock.
DispScTmp ==
    /\ dpc = "sc_tmp"
    /\ IF get_tmp_session(tmps, dreq.to) # None
       THEN /\ sessions' = SendTo(sessions, get_tmp_session(tmps, dreq.to), ReqMsg(dreq))
            /\ DispDone
       ELSE dpc' = "sc_add" /\ UNCHANGED <<sessions, dss, dreq>>
    /\ held' = IF get_tmp_session(tmps, dreq.to) # None THEN {"buffer"} ELSE {}
    /\ Silent /\ NoEndpoint /\ NoInput
    /\ NoReturn
    /\ UNCHANGED <<confVars, transVars, timeVars, regVars, bufVars, tasks, nReq, issued,
                   routVars>>

\* An add step that spawns a task for every request: the fault
\* C9_SpawnOnlyFirst has to exclude.
DispScAdd_always_spawns ==
    /\ dpc = "sc_add"
    /\ connects' = add_entry(connects, dreq.to, dreq.tid, dreq.data)
    /\ tasks' = tasks \cup {SpawnTask(dreq, dss, nReq)}
    /\ DispDone
    /\ Silent /\ Quiet
    /\ NoReturn
    /\ UNCHANGED <<confVars, transVars, timeVars, regVars, results, tmps, sessions, nReq, issued,
                   routVars>>

\* StableConnect step 4: add_connect under the buffer write lock, then spawn.
DispScAdd ==
    /\ dpc = "sc_add"
    /\ connects' = add_entry(connects, dreq.to, dreq.tid, dreq.data)
    /\ IF had_entry(connects, dreq.to)
       THEN UNCHANGED tasks
       ELSE tasks' = tasks \cup {SpawnTask(dreq, dss, nReq)}
    /\ DispDone
    /\ Silent /\ Quiet
    /\ NoReturn
    /\ UNCHANGED <<confVars, transVars, timeVars, regVars, results, tmps, sessions, nReq, issued,
                   routVars>>

\* StableResult steps 2-3: registry lookup.
DispSrGet ==
    /\ dpc = "sr_get"
    /\ LET g == get(dht, stables, dreq.to) IN
       IF ~g.found
       THEN Emit(FailDelivery(dreq)) /\ DispDone /\ UNCHANGED sessions
       ELSE IF g.is_it
       THEN /\ sessions' = SendTo(sessions, g.sess, ReqMsg(dreq))
            /\ DispDone /\ Silent
       ELSE IF ~dreq.ok
       THEN DispDone /\ Silent /\ UNCHANGED sessions
       ELSE /\ dpc' = "sr_tmp" /\ dss' = g.sess
            /\ Silent /\ UNCHANGED <<sessions, dreq>>
    /\ held' = IF get(dht, stables, dreq.to).found /\ get(dht, stables, dreq.to).is_it
               THEN {"peer_list"} ELSE {}
    /\ NoEndpoint /\ NoInput
    /\ NoReturn
    /\ UNCHANGED <<confVars, transVars, timeVars, regVars, bufVars, tasks, nReq, issued,
                   routVars>>

\* StableResult step 4: second get_tmp_session.
DispSrTmp ==
    /\ dpc = "sr_tmp"
    /\ IF get_tmp_session(tmps, dreq.to) # None
       THEN /\ sessions' = SendTo(sessions, get_tmp_session(tmps, dreq.to), ReqMsg(dreq))
            /\ DispDone
       ELSE dpc' = "sr_add" /\ UNCHANGED <<sessions, dss, dreq>>
    /\ held' = IF get_tmp_session(tmps, dreq.to) # None THEN {"buffer"} ELSE {}
    /\ Silent /\ NoEndpoint /\ NoInput
    /\ NoReturn
    /\ UNCHANGED <<confVars, transVars, timeVars, regVars, bufVars, tasks, nReq, issued,
                   routVars>>

\* StableResult step 5: add_result under the buffer write lock, then spawn.
DispSrAdd ==
    /\ dpc = "sr_add"
    /\ results' = add_entry(results, dreq.to, dreq.tid, dreq.data)
    /\ IF had_entry(results, dreq.to)
       THEN UNCHANGED tasks
       ELSE tasks' = tasks \cup {SpawnTask(dreq, dss, nReq)}
    /\ DispDone
    /\ Silent /\ Quiet
    /\ NoReturn
    /\ UNCHANGED <<confVars, transVars, timeVars, regVars, connects, tmps, sessions, nReq, issued,
                   routVars>>

\* ------------------------------------------------------ Global (global.rs)
\* Global::add_tmp: under one buffer write lock, remove_connect then add_tmp.
add_tmp(p, k, d) ==
    /\ connects' = remove_entry(connects, p)
    /\ tmps' = buf_add_tmp(tmps, p, k, d)
    /\ UNCHANGED results

\* Global::add_all_tmp: remove_connect, remove_result, add_tmp.
add_all_tmp(p, k, d) ==
    /\ connects' = remove_entry(connects, p)
    /\ results' = remove_entry(results, p)
    /\ tmps' = buf_add_tmp(tmps, p, k, d)

\* Global::upgrade, first lock: buffer.write().remove_tmp(peer_id).
upgrade_1(s) ==
    /\ tmps' = remove_tmp(tmps, sessions[s].peer)
    /\ sessions' = [sessions EXCEPT ![s].op = "upgrade", ![s].v = tmps[sessions[s].peer]]
    /\ NoReturn
    /\ UNCHANGED <<regVars, connects, results>>

\* upgrade's second lock with a promotion that leaves the DHT entry behind:
\* the fault C2_OneCategory has to exclude.
upgrade_2_keeps_dht(s) ==
    LET p == sessions[s].peer
        v == sessions[s].v
    IN  /\ stables' = IF v.sess # None
                      THEN add_stable_st(dht, stables, p, v.sess, v.direct)
                      ELSE dht_to_stable_st(dht, stables, p)
        /\ sessions' = [sessions EXCEPT ![s].op = "idle", ![s].v = NoStable]
        /\ returned' = Ret("upgrade", p, v.sess # None \/ InDht(dht, p))
        /\ UNCHANGED <<dht, bufVars>>

\* upgrade's second lock with the Tmp entry's is_direct flag dropped
\* (add_stable(id, v, true)): the fault C25_Upgrade has to exclude.
upgrade_2_drops_flag(s) ==
    LET p == sessions[s].peer
        v == sessions[s].v
    IN  /\ IF v.sess # None
           THEN /\ stables' = add_stable_st(dht, stables, p, v.sess, TRUE)
                /\ dht' = add_stable_dht(dht, p)
           ELSE /\ stables' = dht_to_stable_st(dht, stables, p)
                /\ dht' = dht_to_stable_dht(dht, p)
        /\ sessions' = [sessions EXCEPT ![s].op = "idle", ![s].v = NoStable]
        /\ returned' = Ret("upgrade", p, v.sess # None \/ InDht(dht, p))
        /\ UNCHANGED bufVars

\* Global::upgrade, second lock: add_stable(id, v, is_d) and Ok if a Tmp
\* entry was taken, else the Result of dht_to_stable(id).
upgrade_2(s) ==
    LET p == sessions[s].peer
        v == sessions[s].v
    IN  /\ IF v.sess # None
           THEN /\ stables' = add_stable_st(dht, stables, p, v.sess, v.direct)
                /\ dht' = add_stable_dht(dht, p)
           ELSE /\ stables' = dht_to_stable_st(dht, stables, p)
                /\ dht' = dht_to_stable_dht(dht, p)
        /\ sessions' = [sessions EXCEPT ![s].op = "idle", ![s].v = NoStable]
        /\ returned' = Ret("upgrade", p, v.sess # None \/ InDht(dht, p))
        /\ UNCHANGED bufVars

\* tmp_to_dht's first lock without the `if is_d` test, so that a relay
\* entry goes on to add_dht: the fault C26_TmpToDht has to exclude.
tmp_to_dht_1_any_hint(s) ==
    LET p == sessions[s].peer
        v == tmps[p]
    IN  /\ tmps' = remove_tmp(tmps, p)
        /\ IF v.sess # None
           THEN sessions' = [sessions EXCEPT ![s].op = "tmp_to_dht", ![s].v = v] /\ NoReturn
           ELSE UNCHANGED sessions /\ returned' = Ret("tmp_to_dht", p, FALSE)
        /\ UNCHANGED <<regVars, connects, results>>

\* Global::tmp_to_dht, first lock: remove_tmp; Err at once unless the entry
\* exists and is direct.
tmp_to_dht_1(s) ==
    LET p == sessions[s].peer
        v == tmps[p]
    IN  /\ tmps' = remove_tmp(tmps, p)
        /\ IF v.sess # None /\ v.direct
           THEN sessions' = [sessions EXCEPT ![s].op = "tmp_to_dht", ![s].v = v] /\ NoReturn
           ELSE UNCHANGED sessions /\ returned' = Ret("tmp_to_dht", p, FALSE)
        /\ UNCHANGED <<regVars, connects, results>>

\* Global::tmp_to_dht, second lock: peer_list.write().add_dht(v).
tmp_to_dht_2(s) ==
    /\ dht' = add_dht(dht, stables, sessions[s].peer, sessions[s].v.sess)
    /\ sessions' = [sessions EXCEPT ![s].op = "idle", ![s].v = NoStable]
    /\ returned' = Ret("tmp_to_dht", sessions[s].peer,
                       add_dht_ok(dht, stables, sessions[s].peer))
    /\ UNCHANGED <<stables, bufVars>>

\* Global::stable_to_dht, first lock: buffer remove_tmp and remove_stable
\* (the peer's pending connect / result queues).
stable_to_dht_1(s) ==
    LET p == sessions[s].peer
    IN  /\ tmps' = remove_tmp(tmps, p)
        /\ connects' = remove_entry(connects, p)
        /\ results' = remove_entry(results, p)
        /\ sessions' = [sessions EXCEPT ![s].op = "stable_to_dht"]
        /\ NoReturn
        /\ UNCHANGED regVars

\* Global::stable_to_dht, second lock: peer_list.write().stable_to_dht(id).
stable_to_dht_2(s) ==
    LET p == sessions[s].peer
    IN  /\ dht' = stable_to_dht_dht(dht, stables, p)
        /\ stables' = IF InStable(stables, p) THEN stable_to_dht_st(stables, p) ELSE stables
        /\ sessions' = [sessions EXCEPT ![s].op = "idle"]
        /\ returned' = Ret("stable_to_dht", p, InStable(stables, p))
        /\ UNCHANGED bufVars

\* --------------------------------------------------------------- sessions
\* Session channels still free in the run's budget; the router keeps the
\* one it is about to create.
FreeSession == Len(sessions) + (IF rpc = "add" THEN 1 ELSE 0) < run.sess

DeadSession ==
    [peer |-> peer_id, alive |-> FALSE, inbox |-> <<>>, op |-> "idle", v |-> NoStable]

Live(s) == s \in 1..Len(sessions) /\ sessions[s].alive
Ready(s) == Live(s) /\ sessions[s].op = "idle"
PeerOf(s) == sessions[s].peer
HasBufEntry(p) == connects[p] # <<>> \/ results[p] # <<>> \/ tmps[p] # NoStable

sessFrame == <<confVars, transVars, timeVars, tasks, dispVars, routVars>>

\* A session promotes, releases or demotes its peer through Global, when
\* there is something for the call to act on.
SessUpgrade1(s) ==
    /\ Ready(s) /\ (tmps[PeerOf(s)] # NoStable \/ InDht(dht, PeerOf(s)))
    /\ upgrade_1(s) /\ Silent /\ Quiet /\ UNCHANGED sessFrame
SessUpgrade2(s) ==
    /\ Live(s) /\ sessions[s].op = "upgrade"
    /\ upgrade_2(s) /\ Silent /\ Quiet /\ UNCHANGED sessFrame
SessTmpToDht1(s) ==
    /\ Ready(s) /\ tmps[PeerOf(s)] # NoStable
    /\ tmp_to_dht_1(s) /\ Silent /\ Quiet /\ UNCHANGED sessFrame
\* Global::tmp_to_dht called for a peer that has no Tmp entry.
SessTmpToDhtNone(s) ==
    /\ Ready(s) /\ tmps[PeerOf(s)] = NoStable
    /\ tmp_to_dht_1(s) /\ Silent /\ Quiet /\ UNCHANGED sessFrame
SessTmpToDht2(s) ==
    /\ Live(s) /\ sessions[s].op = "tmp_to_dht"
    /\ tmp_to_dht_2(s) /\ Silent /\ Quiet /\ UNCHANGED sessFrame
SessStableToDht1(s) ==
    /\ Ready(s) /\ (InStable(stables, PeerOf(s)) \/ HasBufEntry(PeerOf(s)))
    /\ stable_to_dht_1(s) /\ Silent /\ Quiet /\ UNCHANGED sessFrame
SessStableToDht2(s) ==
    /\ Live(s) /\ sessions[s].op = "stable_to_dht"
    /\ stable_to_dht_2(s) /\ Silent /\ Quiet /\ UNCHANGED sessFrame

TidKinds == {"StableConnect", "StableResult", "Data"}

\* The failed receipts for the requests left in an inbox.
RECURSIVE DrainFail(_, _)
DrainFail(o, q) ==
    IF q = <<>> THEN o
    ELSE DrainFail(
            IF Head(q).type \in TidKinds
            THEN OutDelivery(o, Head(q).type, Head(q).tid, FALSE, Head(q).data)
            ELSE o,
            Tail(q))

\* The session takes the next message from its inbox: a request is written
\* to the peer and acknowledged with a Delivery; DirectIncoming turns a
\* Stable-relay entry into Stable-direct. Close is left to SessClose.
SessHandle(s) ==
    /\ Ready(s) /\ sessions[s].inbox # <<>>
    /\ Head(sessions[s].inbox).type # "Close"
    /\ LET m == Head(sessions[s].inbox)
           p == sessions[s].peer
       IN  /\ sessions' = [sessions EXCEPT ![s].inbox = Tail(@)]
           /\ Emit(IF m.type \in TidKinds
                   THEN OutDelivery(<<>>, m.type, m.tid, TRUE, m.data)
                   ELSE <<>>)
           /\ stables' = IF m.type = "DirectIncoming" /\ InStable(stables, p)
                         THEN [stables EXCEPT ![p].direct = TRUE]
                         ELSE stables
    /\ Quiet
    /\ NoReturn
    /\ UNCHANGED <<confVars, transVars, timeVars, dht, bufVars, tasks, dispVars, routVars>>

\* Closure (transport error, peer close): the session removes its peer from
\* the registry and the Tmp buffer, drains its inbox with a failed Delivery
\* for each tid # 0, and terminates.
SessClose(s) ==
    /\ Ready(s)
    /\ LET p == sessions[s].peer
       IN  /\ dht' = [dht EXCEPT ![p] = None]
           /\ stables' = [stables EXCEPT ![p] = NoStable]
           /\ tmps' = remove_tmp(tmps, p)
           /\ Emit(DrainFail(<<>>, sessions[s].inbox))
           /\ sessions' = [sessions EXCEPT ![s] = DeadSession]
    /\ Quiet
    /\ NoReturn
    /\ UNCHANGED <<confVars, transVars, timeVars, connects, results, tasks, dispVars, routVars>>

\* The pending (tid, data) pairs handed to a fresh session as messages.
RECURSIVE AsMsgs(_, _)
AsMsgs(kind, q) ==
    IF q = <<>> THEN <<>>
    ELSE <<SMsg(kind, Head(q)[1], kind = "StableResult", Head(q)[2])>>
         \o AsMsgs(kind, Tail(q))

\* A relayed connect from peer p arrives through session s: a relay session
\* for p is created and held in Tmp (Global::add_tmp), and the pending
\* connects for p go to it.
RelayIncoming(s, p) ==
    /\ Ready(s) /\ FreeSession
    /\ p \in Remotes \ BlockPeers /\ p # sessions[s].peer
    /\ ~InDht(dht, p) /\ ~InStable(stables, p) /\ tmps[p] = NoStable
    /\ add_tmp(p, Len(sessions) + 1, FALSE)
    /\ sessions' = Append(sessions,
            [NewSession(p) EXCEPT !.inbox = AsMsgs("StableConnect", connects[p])])
    /\ Silent /\ Quiet
    /\ NoReturn
    /\ UNCHANGED <<confVars, transVars, timeVars, regVars, tasks, dispVars, routVars>>

\* ------------------------------------------------------- connection tasks
\* direct_stable / relay_stable completes its handshake: the new session is
\* held in Tmp (Global::add_all_tmp) and receives the pending requests.
TaskSuccess(t) ==
    /\ t \in tasks /\ FreeSession
    /\ ~is_block_peer(t.to)
    /\ t.kind = "relay_stable" => Live(t.via)
    /\ add_all_tmp(t.to, Len(sessions) + 1, t.kind = "direct_stable")
    /\ sessions' = Append(sessions,
            [NewSession(t.to) EXCEPT !.inbox =
                AsMsgs("StableConnect", connects[t.to])
                \o AsMsgs("StableResult", results[t.to])])
    /\ tasks' = tasks \ {t}
    /\ Silent /\ Quiet
    /\ NoReturn
    /\ UNCHANGED <<confVars, transVars, timeVars, regVars, dispVars, routVars>>

\* The task gives up; its pending entry is left to the buffer sweep.
TaskFail(t) ==
    /\ t \in tasks
    /\ tasks' = tasks \ {t}
    /\ Silent /\ Quiet
    /\ NoReturn
    /\ UNCHANGED <<confVars, transVars, timeVars, regVars, bufVars, sessions, dispVars, routVars>>

\* ------------------------------------------------------------ buffer sweep
\* FutureResult::Clear: buffer.write().timer_clear(). The entries of peer p
\* have aged out and are dropped. The buffer is built by Buffer::init()
\* without out_sender and the arm drops the call's result, so the sweep
\* sends the application nothing.
TimerClear(p) ==
    /\ HasBufEntry(p)
    /\ connects' = remove_entry(connects, p)
    /\ results' = remove_entry(results, p)
    /\ tmps' = remove_tmp(tmps, p)
    /\ Silent
    /\ Quiet
    /\ NoReturn
    /\ UNCHANGED <<confVars, transVars, timeVars, regVars, sessions, tasks, dispVars, routVars>>

\* ------------------------------------------------------------- trans_send
\* The frame of a trans_send step: it touches the transports map only.
transFrame ==
    <<confVars, timeVars, regVars, bufVars, sessions, tasks, dispVars, routVars>>

\* Caller c enters trans_send(k, msg): under the read lock, a bound kind
\* takes the message on its channel; for an unbound kind the lock is dropped.
TransRead(c, k) ==
    /\ tpc[c].pc = "idle"
    /\ tpc' = [tpc EXCEPT ![c] =
                IF transports[k] # None
                THEN [pc |-> "done", kind |-> k, chan |-> transports[k]]
                ELSE [pc |-> "start", kind |-> k, chan |-> None]]
    /\ UNCHANGED <<transports, nListen>>
    /\ Silent /\ Quiet /\ NoReturn /\ UNCHANGED transFrame

\* The channel of the next listener to be started.
NewChannel == 1 + nListen["QUIC"] + nListen["TCP"] + nListen["RTP"] + nListen["UDT"]

\* `start(&new_peer, Some(main_send)).await?` and the send on the new
\* channel: the bind fails (Err is returned) or a listener is started and
\* takes the message.
TransStart(c) ==
    /\ tpc[c].pc = "start"
    /\ \E bound \in BOOLEAN :
         IF bound
         THEN /\ nListen' = [nListen EXCEPT ![tpc[c].kind] = @ + 1]
              /\ tpc' = [tpc EXCEPT ![c].pc = "insert", ![c].chan = NewChannel]
         ELSE /\ tpc' = [tpc EXCEPT ![c].pc = "failed"]
              /\ UNCHANGED nListen
    /\ UNCHANGED transports
    /\ Silent /\ Quiet /\ NoReturn /\ UNCHANGED transFrame

\* `self.transports.write().await.insert(*trans_type, trans_send)`
TransInsert(c) ==
    /\ tpc[c].pc = "insert"
    /\ transports' = [transports EXCEPT ![tpc[c].kind] = tpc[c].chan]
    /\ tpc' = [tpc EXCEPT ![c].pc = "done"]
    /\ UNCHANGED nListen
    /\ Silent /\ Quiet /\ NoReturn /\ UNCHANGED transFrame

\* ------------------------------------------------------------------ timers
\* A second passes while the inbound loop waits in select! and no branch is
\* ready.
Tick ==
    /\ rpc = "idle" /\ now < MaxTime
    /\ now < check_at /\ now < clear_at
    /\ now' = now + 1
    /\ Silent /\ Quiet
    /\ NoReturn
    /\ UNCHANGED <<confVars, transVars, check_at, clear_at, nCheck, nClear, nLost, regVars, bufVars,
                   sessions, tasks, dispVars, routVars>>

\* ReceiveMessage::NetworkLost
NetworkLost == [type |-> "NetworkLost"]

\* A Check arm that reports NetworkLost whatever the registry holds: the
\* fault C21_LostIffEmpty has to exclude.
CheckReport_always ==
    /\ Emit(<<NetworkLost>>)
    /\ nLost' = nLost + 1

\* `if peer_list.is_empty() { out_send(NetworkLost) }`
CheckReport ==
    IF is_empty(dht, stables)
    THEN Emit(<<NetworkLost>>) /\ nLost' = nLost + 1
    ELSE Silent /\ nLost' = nLost

\* select! completes with the Check branch: NetworkLost if the registry is
\* empty; the loop starts over.
FutureCheck ==
    /\ rpc = "idle" /\ now >= check_at
    /\ CheckReport
    /\ nCheck' = nCheck + 1
    /\ check_at' = now + CheckSecs /\ clear_at' = now + ClearSecs
    /\ Quiet
    /\ NoReturn
    /\ UNCHANGED <<confVars, transVars, now, nClear, regVars, bufVars, sessions, tasks,
                   dispVars, routVars>>

\* select! completes with the Clear branch: timer_clear drops the entries of
\* the peers in `aged`; the loop starts over.
FutureClear ==
    /\ rpc = "idle" /\ now >= clear_at
    /\ \E aged \in SUBSET {p \in Remotes : HasBufEntry(p)} :
         /\ connects' = [p \in PeerIds |-> IF p \in aged THEN <<>> ELSE connects[p]]
         /\ results' = [p \in PeerIds |-> IF p \in aged THEN <<>> ELSE results[p]]
         /\ tmps' = [p \in PeerIds |-> IF p \in aged THEN NoStable ELSE tmps[p]]
    /\ Silent
    /\ nClear' = nClear + 1
    /\ check_at' = now + CheckSecs /\ clear_at' = now + ClearSecs
    /\ Quiet
    /\ NoReturn
    /\ UNCHANGED <<confVars, transVars, now, nCheck, nLost, regVars, sessions, tasks, dispVars,
                   routVars>>

\* ------------------------------------------------------------------- Next
Next ==
    \/ RouterRecv
    \/ RouterAdd
    \/ DispRecv
    \/ DispScTmp
    \/ DispScAdd
    \/ DispSrGet
    \/ DispSrTmp
    \/ DispSrAdd
    \/ \E s \in SessIds : SessUpgrade1(s)
    \/ \E s \in SessIds : SessUpgrade2(s)
    \/ \E s \in SessIds : SessTmpToDht1(s)
    \/ \E s \in SessIds : SessTmpToDht2(s)
    \/ \E s \in SessIds : SessStableToDht1(s)
    \/ \E s \in SessIds : SessStableToDht2(s)
    \/ \E s \in SessIds : SessHandle(s)
    \/ \E s \in SessIds : SessClose(s)
    \/ \E s \in SessIds, p \in Remotes : RelayIncoming(s, p)
    \/ \E t \in tasks : TaskSuccess(t)
    \/ \E t \in tasks : TaskFail(t)
    \/ \E p \in Remotes : TimerClear(p)

Spec == Init /\ [][Next]_vars

\* The inbound router, the sessions and the sweep, without the dispatcher.
NextRouter ==
    \/ RouterRecv
    \/ RouterAdd
    \/ \E s \in SessIds : SessUpgrade1(s)
    \/ \E s \in SessIds : SessUpgrade2(s)
    \/ \E s \in SessIds : SessTmpToDht1(s)
    \/ \E s \in SessIds : SessStableToDht1(s)
    \/ \E s \in SessIds : SessStableToDht2(s)
    \/ \E s \in SessIds : SessHandle(s)
    \/ \E s \in SessIds : SessClose(s)
    \/ \E s \in SessIds, p \in Remotes : RelayIncoming(s, p)
    \/ \E p \in Remotes : TimerClear(p)

SpecRouter == InitRouter /\ [][NextRouter]_vars

\* Every action but the StableResult steps of the dispatcher.
NextRegistry ==
    \/ NextRouter
    \/ DispRecv
    \/ DispScTmp
    \/ DispScAdd
    \/ \E s \in SessIds : SessTmpToDht2(s)
    \/ \E t \in tasks : TaskSuccess(t)
    \/ \E t \in tasks : TaskFail(t)

SpecRegistry == InitRegistry /\ [][NextRegistry]_vars
SpecPending == InitPending /\ [][Next]_vars

\* The router, the sessions, the sweep and the dispatcher's one-step arms.
NextCast ==
    \/ NextRouter
    \/ DispRecv

SpecCast == InitCast /\ [][NextCast]_vars

\* The inbound loop with a silent transport: only its two timers.
NextTimer ==
    \/ Tick
    \/ FutureCheck
    \/ FutureClear

SpecTimer == InitTimer /\ [][NextTimer]_vars

\* The origin of `now` and of the counts moves to the present: what the loop
\* does next depends only on the time left on its two sleeps.
Rebase ==
    /\ rpc = "idle" /\ now > 0
    /\ now' = 0
    /\ check_at' = check_at - now /\ clear_at' = clear_at - now
    /\ nCheck' = 0 /\ nClear' = 0 /\ nLost' = 0
    /\ Silent /\ Quiet
    /\ NoReturn
    /\ UNCHANGED <<confVars, transVars, regVars, bufVars, sessions, tasks, dispVars, routVars>>

\* The inbound loop for ever: time passes, the sleeps complete, refused
\* transport events arrive.
NextLive ==
    \/ Tick
    \/ FutureCheck
    \/ FutureClear
    \/ RouterRecv
    \/ Rebase

\* Time passes; a completed sleep ends select!, which polls its ready
\* branches in random order, so each ready branch is taken in the end. No
\* fairness for the transport events: remotes dial when they like.
SpecLive ==
    /\ InitLive /\ [][NextLive]_vars
    /\ WF_vars(Tick) /\ WF_vars(Rebase)
    /\ SF_vars(FutureCheck) /\ SF_vars(FutureClear)

\* ------------------------------------------------ bounded session inboxes
\* The capacity of a session's inbox: s.send(..).await is the send of a
\* bounded tokio mpsc channel, which waits while the channel is full.
InboxCap == 1

\* Blocking run: two requests for a peer that has dialled in.
InitBlock ==
    InitWith([req |-> MaxReq, conn |-> MainConn, sess |-> MainSess,
              kinds |-> {"StableConnect", "Data"}, tids |-> {FALSE},
              events |-> Dials],
             {MaxDeliveryLength}, {FALSE})

\* The inbox of live session s has no room for another message.
Full(s) == Live(s) /\ Len(sessions[s].inbox) >= InboxCap

\* The arm of r looks its peer up under peer_list.read() and sends to the
\* session it finds while the guard is alive, and that inbox is full.
SendWaits(r) ==
    /\ r.kind \in {"StableConnect", "Data"} /\ r.to # peer_id
    /\ get(dht, stables, r.to).found
    /\ r.kind = "StableConnect" => get(dht, stables, r.to).is_it
    /\ Full(get(dht, stables, r.to).sess)

\* The message the arm of r hands to the session it found.
ArmMsg(r) ==
    IF r.kind = "Data" /\ ~get(dht, stables, r.to).is_it
    THEN SMsg("RelayData", 0, FALSE, r.data)
    ELSE ReqMsg(r)

\* self_receiver.recv() yields r and its arm ends without waiting.
DispRecvRoom == \E r \in Requests(nReq + 1) : ~SendWaits(r) /\ DispatchOne(r)

\* self_receiver.recv() yields r; s.send(..).await finds the inbox full and
\* the dispatcher waits in it, peer_list_lock still alive.
DispRecvWait ==
    \E r \in Requests(nReq + 1) :
        /\ dpc = "idle" /\ nReq < run.req
        /\ r.kind \in run.kinds /\ (r.tid # 0) \in run.tids
        /\ SendWaits(r)
        /\ nReq' = nReq + 1
        /\ issued' = IF r.tid # 0 THEN issued \cup {r.tid} ELSE issued
        /\ dpc' = "sending" /\ dss' = get(dht, stables, r.to).sess /\ dreq' = r
        /\ held' = {"peer_list"}
        /\ Silent /\ NoEndpoint /\ last' = LastReq(r)
        /\ NoReturn
        /\ UNCHANGED <<confVars, transVars, timeVars, regVars, bufVars, sessions,
                       tasks, routVars>>

\* The inbox has room again (or the session is gone): the send returns, the
\* guard is dropped and the dispatcher goes back to its loop.
DispSendDone ==
    /\ dpc = "sending" /\ ~Full(dss)
    /\ sessions' = SendTo(sessions, dss, ArmMsg(dreq))
    /\ DispDone /\ held' = {"peer_list"}
    /\ Silent /\ NoEndpoint /\ NoInput
    /\ NoReturn
    /\ UNCHANGED <<confVars, transVars, timeVars, regVars, bufVars, tasks, routVars,
                   nReq, issued>>

\* peer_list.write().await is granted only when no read guard is alive.
WriteFree == dpc # "sending"

LockedRouterAdd == WriteFree /\ RouterAdd
LockedUpgrade2(s) == WriteFree /\ SessUpgrade2(s)
LockedStableToDht2(s) == WriteFree /\ SessStableToDht2(s)
LockedClose(s) == WriteFree /\ SessClose(s)

NextBlock ==
    \/ RouterRecv
    \/ LockedRouterAdd
    \/ DispRecvRoom
    \/ DispRecvWait
    \/ DispSendDone
    \/ \E s \in SessIds : SessUpgrade1(s)
    \/ \E s \in SessIds : LockedUpgrade2(s)
    \/ \E s \in SessIds : SessStableToDht1(s)
    \/ \E s \in SessIds : LockedStableToDht2(s)
    \/ \E s \in SessIds : SessHandle(s)
    \/ \E s \in SessIds : LockedClose(s)

SpecBlock == InitBlock /\ [][NextBlock]_vars

\* Concurrent calls of Global::trans_send.
NextTrans ==
    \/ \E c \in Callers, k \in TransportTypes : TransRead(c, k)
    \/ \E c \in Callers : TransStart(c)
    \/ \E c \in Callers : TransInsert(c)

SpecTrans == InitTrans /\ [][NextTrans]_vars

\* The inbound loop with its timers, and sessions that relay a connection,
\* upgrade to Stable and close.
NextHealth ==
    \/ NextTimer
    \/ RouterRecv
    \/ RouterAdd
    \/ \E s \in SessIds, p \in Remotes : RelayIncoming(s, p)
    \/ \E s \in SessIds : SessUpgrade1(s)
    \/ \E s \in SessIds : SessUpgrade2(s)
    \/ \E s \in SessIds : SessClose(s)

SpecHealth == InitHealth /\ [][NextHealth]_vars

\* The conversions of PeerId and TransportType.
NextCodec ==
    \/ PeerToHex
    \/ PeerFromHex
    \/ PeerAsBytes
    \/ PeerFromBytes
    \/ TransToByte
    \/ TransFromByte
    \/ TransToStr
    \/ TransFromStr

SpecCodec == InitCodec /\ [][NextCodec]_vars

\* Every step of the main run, and tmp_to_dht calls that find no Tmp entry.
NextGlobal ==
    \/ Next
    \/ \E s \in SessIds : SessTmpToDhtNone(s)

SpecGlobal == InitGlobal /\ [][NextGlobal]_vars

\* ================================================================ claims

\* Where a request with tid t can still be: in the dispatcher's hand, in the
\* inbox of a live session, or in a Pending entry of the buffer.
InHand(t) == dpc # "idle" /\ dreq.tid = t
InboxHas(t) ==
    \E s \in 1..Len(sessions) : sessions[s].alive /\
        \E i \in 1..Len(sessions[s].inbox) :
            sessions[s].inbox[i].type \in TidKinds /\ sessions[s].inbox[i].tid = t
PendingHas(t) ==
    \E p \in PeerIds :
        \/ \E i \in 1..Len(connects[p]) : connects[p][i][1] = t
        \/ \E i \in 1..Len(results[p]) : results[p][i][1] = t
InCustody(t) == InHand(t) \/ InboxHas(t) \/ PendingHas(t)

\* C1: every request with a nonzero tid gets exactly one Delivery: while
\* some component still holds the request none has been sent, and once no
\* component holds it exactly one has been sent.
C1_ExactlyOneDelivery ==
    \A t \in issued : delivered[t] = IF InCustody(t) THEN 0 ELSE 1

\* The registry categories that hold peer p.
Categories(p) ==
    {c \in {"DHT", "StableDirect", "StableRelay", "Blocked"} :
        \/ c = "DHT" /\ InDht(dht, p)
        \/ c = "StableDirect" /\ InStable(stables, p) /\ stables[p].direct
        \/ c = "StableRelay" /\ InStable(stables, p) /\ ~stables[p].direct
        \/ c = "Blocked" /\ is_block_peer(p)}

\* C2: at every instant every peer-id is in at most one registry category.
C2_OneCategory == \A p \in PeerIds : Cardinality(Categories(p)) <= 1

\* A peer held in Tmp under one session and added to the DHT by the router
\* under a second one has been promoted by upgrade: it is Stable with the
\* handles of the DHT entry, and nothing of it is left in Tmp.
C2_Witness ==
    \E p \in Remotes : \E s1, s2 \in 1..Len(sessions) :
        /\ s1 # s2 /\ Live(s1) /\ Live(s2)
        /\ PeerOf(s1) = p /\ PeerOf(s2) = p
        /\ sessions[s1].op = "idle" /\ sessions[s2].op = "idle"
        /\ InStable(stables, p) /\ stables[p].sess = s2 /\ s1 < s2
        /\ tmps[p] = NoStable

\* The step is the router receiving event ev / the dispatcher receiving
\* request r (the two receive steps record their input in last).
Routes(ev) == last' = LastEv(ev) /\ RouteOne(ev)
Dispatches(r) == last' = LastReq(r) /\ DispatchOne(r)

\* An event the router has to refuse: blocked address, blocked peer or self.
MustRefuse(ev) == ev.addr \in BlockAddrs \/ ev.id \in BlockPeers \/ ev.id = peer_id

\* C3: a connection from a blocked address, from a blocked peer or from self
\* is answered with Close alone (no Handshake, no DHT), the router returns
\* to its receive loop, and registry, buffer, sessions (inboxes included) and
\* tasks are unchanged.
C3_RefusedBeforeKey ==
    [][LET ev == last'.ev IN
        (Routes(ev) /\ MustRefuse(ev)) =>
            /\ endpoint' = <<"Close">>
            /\ rpc' = "idle"
            /\ UNCHANGED <<dht, stables, connects, results, tmps, sessions, tasks>>
      ]_vars

\* The router has just refused a passive connection whose key would have
\* completed, while the registry holds another peer.
C3_Witness ==
    /\ last.is = "event" /\ MustRefuse(last.ev)
    /\ last.ev.key_ok /\ ~last.ev.is_self
    /\ endpoint = <<"Close">>
    /\ ~is_empty(dht, stables)

\* C4: at every instant at most one live session exists per remote peer-id,
\* whether the peer is DHT-only, Stable or held only in the Tmp buffer.
C4_OneLiveSession ==
    \A s1, s2 \in 1..Len(sessions) :
        (Live(s1) /\ Live(s2) /\ PeerOf(s1) = PeerOf(s2)) => s1 = s2

\* SessionMessage::DirectIncoming as the router sends it.
DirectIncoming == SMsg("DirectIncoming", 0, FALSE, <<>>)

\* C5: for a stream that passes the checks and comes from a peer that is
\* Stable-relay the router sends exactly one DirectIncoming to the session
\* of the Stable entry (it is lost if that session has terminated) and
\* returns: no add_dht step, no DHT and no Close on the endpoint, no new
\* session, registry unchanged; and when the session handles DirectIncoming
\* the peer is still in exactly one category.
C5_RelayUpgrade ==
    [][/\ LET ev == last'.ev IN
            (/\ Routes(ev) /\ ~MustRefuse(ev) /\ ev.key_ok
             /\ InStable(stables, ev.id) /\ ~stables[ev.id].direct) =>
                /\ sessions' = IF sessions[stables[ev.id].sess].alive
                               THEN [sessions EXCEPT ![stables[ev.id].sess].inbox =
                                        Append(@, DirectIncoming)]
                               ELSE sessions
                /\ rpc' = "idle"
                /\ endpoint' \in {<<>>, <<"Handshake">>}
                /\ UNCHANGED <<dht, stables, bufVars, tasks>>
                /\ Cardinality(Categories(ev.id)) = 1
       /\ \A s \in SessIds :
            (/\ SessHandle(s)
             /\ Head(sessions[s].inbox) = DirectIncoming
             /\ InStable(stables, PeerOf(s))) =>
                /\ stables' = [stables EXCEPT ![PeerOf(s)].direct = TRUE]
                /\ dht' = dht
                /\ ~InDht(dht, PeerOf(s))
      ]_vars

\* The router has just answered a passive stream from a Stable-relay peer:
\* the peer's session holds the DirectIncoming and the peer is still relay.
C5_Witness ==
    /\ last.is = "event" /\ ~last.ev.is_self
    /\ InStable(stables, last.ev.id) /\ ~stables[last.ev.id].direct
    /\ endpoint = <<"Handshake">>
    /\ Live(stables[last.ev.id].sess)
    /\ sessions[stables[last.ev.id].sess].inbox = <<DirectIncoming>>

\* The failed receipt the application gets for request r.
FailedReceipt(r) ==
    Delivery(r.kind, r.tid, FALSE, SubSeq(r.data, 1, Min(Len(r.data), delivery_length)))

\* The registry lookup of p finds nothing / only a closest peer.
LookupNothing(p) == ~InStable(stables, p) /\ \A q \in PeerIds : ~InDht(dht, q)
LookupInexact(p) ==
    ~InStable(stables, p) /\ ~InDht(dht, p) /\ \E q \in PeerIds : InDht(dht, q)

\* C6: a StableConnect to a peer other than self, handled while the lookup
\* finds nothing, yields one failed Delivery iff tid # 0; whatever the
\* descriptor, nothing is queued, no session gets a message, no task is
\* spawned and the dispatcher is back at its receive loop.
C6_UnknownFails ==
    [][LET r == last'.req IN
        (/\ Dispatches(r) /\ r.kind = "StableConnect"
         /\ r.to # peer_id /\ LookupNothing(r.to)) =>
            /\ out' = IF r.tid # 0 THEN <<FailedReceipt(r)>> ELSE <<>>
            /\ dpc' = "idle"
            /\ UNCHANGED <<dht, stables, connects, results, tmps, sessions, tasks>>
      ]_vars

\* The dispatcher has just failed a tracked StableConnect that carried a
\* socket, with nothing in the registry.
C6_Witness ==
    /\ last.is = "request" /\ last.req.kind = "StableConnect"
    /\ last.req.to # peer_id /\ last.req.tid # 0 /\ last.req.sock
    /\ LookupNothing(last.req.to)
    /\ out = <<FailedReceipt(last.req)>>
    /\ dpc = "idle" /\ tasks = {}

\* The session of a DHT peer closest to p by XOR distance.
IsClosestSession(ss, p) ==
    \E q \in PeerIds :
        /\ InDht(dht, q) /\ ss = dht[q]
        /\ \A x \in PeerIds : InDht(dht, x) => Xor(q, p) <= Xor(x, p)

\* C7 as stated: a StableConnect whose lookup finds only a closest peer is
\* answered with a failed Delivery (tid # 0) and the dispatcher is done.
C7_InexactFails ==
    [][LET r == last'.req IN
        (/\ Dispatches(r) /\ r.kind = "StableConnect" /\ r.tid # 0
         /\ r.to # peer_id /\ LookupInexact(r.to)) =>
            out' = <<FailedReceipt(r)>> /\ dpc' = "idle"
      ]_vars

\* C7 amended: a StableConnect whose lookup finds only a closest peer gets no
\* Delivery from the dispatcher; the dispatcher keeps the closest session ss
\* and goes on to the Tmp check; a target in Tmp gets the request in its
\* session's inbox; otherwise the request is queued as Pending-connect and,
\* when no entry was outstanding, a connection task is spawned that is
\* relay_stable through ss unless the descriptor carries a socket.
C7_InexactRouted ==
    [][/\ LET r == last'.req IN
            (/\ Dispatches(r) /\ r.kind = "StableConnect"
             /\ r.to # peer_id /\ LookupInexact(r.to)) =>
                /\ out' = <<>> /\ dpc' = "sc_tmp" /\ dreq' = r
                /\ IsClosestSession(dss', r.to)
                /\ UNCHANGED <<regVars, bufVars, sessions, tasks>>
       /\ (DispScTmp /\ tmps[dreq.to].sess # None) =>
                /\ out' = <<>> /\ dpc' = "idle"
                /\ sessions' = [sessions EXCEPT
                        ![tmps[dreq.to].sess].inbox = Append(@, ReqMsg(dreq))]
       /\ (DispScTmp /\ tmps[dreq.to].sess = None) =>
                out' = <<>> /\ dpc' = "sc_add" /\ UNCHANGED <<dreq, dss, sessions>>
       /\ DispScAdd =>
                /\ out' = <<>> /\ dpc' = "idle"
                /\ connects' = [connects EXCEPT
                        ![dreq.to] = Append(@, <<dreq.tid, dreq.data>>)]
                /\ connects[dreq.to] = <<>> =>
                        \E t \in tasks' \ tasks :
                            /\ t.to = dreq.to /\ t.origin = "StableConnect"
                            /\ t.kind = IF dreq.sock THEN "direct_stable"
                                        ELSE "relay_stable"
                            /\ ~dreq.sock => t.via = dss
      ]_vars

\* A tracked id-only StableConnect to a peer the registry does not hold is
\* queued and a relay_stable task through the live session of the only
\* DHT peer is running; no Delivery has been sent for it.
C7_Witness ==
    \E t \in tasks :
        /\ t.kind = "relay_stable" /\ t.origin = "StableConnect" /\ t.tid # 0
        /\ Live(t.via) /\ InDht(dht, PeerOf(t.via)) /\ dht[PeerOf(t.via)] = t.via
        /\ PeerOf(t.via) # t.to
        /\ Len(connects[t.to]) = 1 /\ connects[t.to][1][1] = t.tid
        /\ delivered[t.tid] = 0

\* C8: a StableConnect or StableResult for a peer that has a Tmp entry and
\* no exact registry entry brings no Delivery from the dispatcher and is
\* either forwarded to the Tmp session at once or still in the dispatcher's
\* hand, whatever else the registry holds.
C8_TmpForwarded ==
    [][LET r == last'.req IN
        (/\ Dispatches(r) /\ r.kind \in StableKinds
         /\ tmps[r.to].sess # None
         /\ ~InStable(stables, r.to) /\ ~InDht(dht, r.to)) =>
            /\ out' = <<>>
            /\ \/ dpc' # "idle" /\ dreq' = r
               \/ sessions' = [sessions EXCEPT
                        ![tmps[r.to].sess].inbox = Append(@, ReqMsg(r))]
            /\ UNCHANGED <<connects, results, tasks>>
      ]_vars

\* C10 as stated: a StableConnect or StableResult to self yields one failed
\* Delivery and nothing else.
C10_SelfOneDelivery ==
    [][LET r == last'.req IN
        (Dispatches(r) /\ r.kind \in StableKinds /\ r.to = peer_id) =>
            /\ out' = <<FailedReceipt(r)>>
            /\ dpc' = "idle"
            /\ UNCHANGED <<regVars, bufVars, sessions, tasks>>
      ]_vars

\* C10 amended: a StableConnect or StableResult to self yields one failed
\* Delivery iff tid # 0 and none for tid = 0, and nothing else: registry,
\* buffer, sessions and tasks are unchanged and the dispatcher is done.
C10_SelfFails ==
    [][LET r == last'.req IN
        (Dispatches(r) /\ r.kind \in StableKinds /\ r.to = peer_id) =>
            /\ out' = IF r.tid # 0 THEN <<FailedReceipt(r)>> ELSE <<>>
            /\ dpc' = "idle"
            /\ UNCHANGED <<regVars, bufVars, sessions, tasks>>
      ]_vars

\* The dispatcher has just failed a tracked StableResult addressed to self
\* while the registry holds a peer.
C10_Witness ==
    /\ last.is = "request" /\ last.req.kind = "StableResult"
    /\ last.req.to = peer_id /\ last.req.tid # 0
    /\ out = <<FailedReceipt(last.req)>>
    /\ ~is_empty(dht, stables)

\* C9: the add step of a StableConnect (resp. an accepted StableResult)
\* queues the request and spawns a task exactly when no Pending-connect
\* (resp. Pending-result) entry for the target was outstanding; the task is
\* direct_stable iff the descriptor has a socket, else relay_stable through
\* ss, and ss is the session of the closest DHT peer found by the lookup.
C9_SpawnOnlyFirst ==
    [][/\ DispScAdd =>
            /\ connects' = [connects EXCEPT
                    ![dreq.to] = Append(@, <<dreq.tid, dreq.data>>)]
            /\ IF connects[dreq.to] # <<>> THEN tasks' = tasks
               ELSE \E t \in tasks' \ tasks :
                    /\ tasks' = tasks \cup {t}
                    /\ t.to = dreq.to /\ t.origin = "StableConnect"
                    /\ t.kind = IF dreq.sock THEN "direct_stable" ELSE "relay_stable"
                    /\ ~dreq.sock => t.via = dss
       /\ DispSrAdd =>
            /\ dreq.ok
            /\ results' = [results EXCEPT
                    ![dreq.to] = Append(@, <<dreq.tid, dreq.data>>)]
            /\ IF results[dreq.to] # <<>> THEN tasks' = tasks
               ELSE \E t \in tasks' \ tasks :
                    /\ tasks' = tasks \cup {t}
                    /\ t.to = dreq.to /\ t.origin = "StableResult"
                    /\ t.kind = IF dreq.sock THEN "direct_stable" ELSE "relay_stable"
                    /\ ~dreq.sock => t.via = dss
       /\ LET r == last'.req IN
            (Dispatches(r) /\ dpc' = "sc_tmp") => IsClosestSession(dss', r.to)
       /\ (DispSrGet /\ dpc' = "sr_tmp") => IsClosestSession(dss', dreq.to)
      ]_vars

\* Two StableConnects to the same target are queued under one Pending-connect
\* entry and a single task for that target is running.
C9_Witness ==
    \E p \in Remotes :
        /\ Len(connects[p]) = 2
        /\ Cardinality({t \in tasks : t.to = p}) = 1
        /\ nReq = 2 /\ dpc = "idle"

\* C11: a Data request addressed to self is looped back: the application
\* gets Delivery(Data, tid, true, prefix) (only when tid # 0) and after it
\* Data(self, data) with the whole payload; registry, buffer, sessions and
\* tasks are unchanged and the dispatcher is back at its receive loop.
C11_SelfLoopback ==
    [][LET r == last'.req IN
        (Dispatches(r) /\ r.kind = "Data" /\ r.to = peer_id) =>
            /\ out' = (IF r.tid # 0
                       THEN <<Delivery("Data", r.tid, TRUE,
                                SubSeq(r.data, 1, Min(Len(r.data), delivery_length)))>>
                       ELSE <<>>)
                      \o <<[type |-> "Data", from |-> peer_id, data |-> r.data]>>
            /\ dpc' = "idle"
            /\ UNCHANGED <<regVars, bufVars, sessions, tasks>>
      ]_vars

\* The dispatcher has just looped back a tracked Data whose payload is
\* longer than delivery_length: the receipt comes first and is shorter than
\* the Data that follows it.
C11_Witness ==
    /\ last.is = "request" /\ last.req.kind = "Data"
    /\ last.req.to = peer_id /\ last.req.tid # 0
    /\ Len(out) = 2 /\ out[1].type = "Delivery" /\ out[2].type = "Data"
    /\ Len(out[1].data) < Len(out[2].data)
    /\ out[2].data = last.req.data

\* C12: in permissioned mode (is_relay_data false) a Data request whose
\* target has no exact registry entry is not relayed: no session receives
\* anything and the application gets a failed Delivery when tid # 0.
C12_RelayOnlyPermissionless ==
    [][LET r == last'.req IN
        (/\ Dispatches(r) /\ r.kind = "Data" /\ r.to # peer_id
         /\ ~is_relay_data
         /\ (LookupNothing(r.to) \/ LookupInexact(r.to))) =>
            /\ sessions' = sessions
            /\ out' = IF r.tid # 0 THEN <<FailedReceipt(r)>> ELSE <<>>
      ]_vars

\* C13: StableDisconnect(id) sends Close to the session of id iff id is a
\* Stable entry; for every other id (DHT-only, Tmp-only, unknown) no
\* session receives anything. Registry and buffer are unchanged and the
\* application hears nothing.
C13_CloseOnlyStable ==
    [][LET r == last'.req IN
        (Dispatches(r) /\ r.kind = "StableDisconnect") =>
            /\ sessions' = IF InStable(stables, r.to) /\ sessions[stables[r.to].sess].alive
                           THEN [sessions EXCEPT ![stables[r.to].sess].inbox =
                                    Append(@, [type |-> "Close", tid |-> 0,
                                               ok |-> FALSE, data |-> <<>>])]
                           ELSE sessions
            /\ out' = <<>>
            /\ UNCHANGED <<regVars, bufVars, tasks>>
      ]_vars

\* Session s as it is after it was sent Data(0, d), if it still listens.
GotCast(s, d) ==
    IF sessions[s].alive
    THEN [sessions[s] EXCEPT !.inbox =
            Append(@, [type |-> "Data", tid |-> 0, ok |-> FALSE, data |-> d])]
    ELSE sessions[s]

StableSession(s) == \E p \in PeerIds : InStable(stables, p) /\ stables[p].sess = s
DhtSession(s) == \E p \in PeerIds : InDht(dht, p) /\ dht[p] = s

\* C14: Broadcast(StableAll, d) sends Data(0, d) once to the session of every
\* peer that is Stable when the request is handled, and to no other session
\* (none of a DHT-only peer).
C14_StableAll ==
    [][LET r == last'.req IN
        (Dispatches(r) /\ r.kind = "Broadcast" /\ r.broadcast = "StableAll") =>
            /\ Len(sessions') = Len(sessions)
            /\ \A s \in 1..Len(sessions) :
                  sessions'[s] = IF StableSession(s) THEN GotCast(s, r.data)
                                 ELSE sessions[s]
      ]_vars

\* A StableAll broadcast was just handled while one peer was Stable and
\* another DHT-only: the first session holds the Data, the second nothing.
C14_Witness ==
    /\ last.is = "request" /\ last.req.broadcast = "StableAll"
    /\ \E p, q \in Remotes :
         /\ InStable(stables, p) /\ Live(stables[p].sess)
         /\ sessions[stables[p].sess].inbox = <<SMsg("Data", 0, FALSE, last.req.data)>>
         /\ ~InStable(stables, q) /\ InDht(dht, q) /\ Live(dht[q])
         /\ sessions[dht[q]].inbox = <<>>

\* C15: Broadcast(Gossip, d) sends Data(0, d) to the session of every Stable
\* or DHT entry and to no other session; a Broadcast of either kind changes
\* neither registry nor buffer, spawns nothing, sends the application
\* nothing and leaves the dispatcher at its receive loop, whatever the
\* registry holds.
C15_Gossip ==
    [][LET r == last'.req IN
        (Dispatches(r) /\ r.kind = "Broadcast") =>
            /\ out' = <<>> /\ dpc' = "idle"
            /\ UNCHANGED <<regVars, bufVars, tasks>>
            /\ Len(sessions') = Len(sessions)
            /\ r.broadcast = "Gossip" =>
                  \A s \in 1..Len(sessions) :
                     sessions'[s] = IF StableSession(s) \/ DhtSession(s)
                                    THEN GotCast(s, r.data)
                                    ELSE sessions[s]
      ]_vars

\* A Gossip broadcast was just handled while one peer was Stable and another
\* DHT-only: both sessions hold the Data.
C15_Witness ==
    /\ last.is = "request" /\ last.req.broadcast = "Gossip"
    /\ \E p, q \in Remotes :
         /\ InStable(stables, p) /\ Live(stables[p].sess)
         /\ sessions[stables[p].sess].inbox = <<SMsg("Data", 0, FALSE, last.req.data)>>
         /\ ~InStable(stables, q) /\ InDht(dht, q) /\ Live(dht[q])
         /\ sessions[dht[q]].inbox = <<SMsg("Data", 0, FALSE, last.req.data)>>

\* C16: at every instant a peer with a Pending-connect or Pending-result
\* entry is not Stable, however the dispatcher's lookup-then-add and the
\* sessions' add_tmp / add_all_tmp and upgrade interleave.
C16_PendingNotStable ==
    \A p \in PeerIds :
        (connects[p] # <<>> \/ results[p] # <<>>) => ~InStable(stables, p)

\* C17: whatever events arrive and requests are made, the node dialing its
\* own address and a handshake carrying its own key included, the DHT never
\* holds the own peer-id, no live session has self as its peer and no
\* connection task targets self.
C17_NeverSelf ==
    /\ ~InDht(dht, peer_id)
    /\ \A s \in 1..Len(sessions) : sessions[s].alive => sessions[s].peer # peer_id
    /\ \A t \in tasks : t.to # peer_id

\* The node's own dial came back to it (half-open key, own peer-id, address
\* not blocked, key completes) after a request was handled: the router
\* answered Close and is back at its receive loop.
C17_Witness ==
    /\ last.is = "event" /\ last.ev.id = peer_id
    /\ last.ev.is_self /\ last.ev.key_ok /\ ~is_block_addr(last.ev.addr)
    /\ endpoint = <<"Close">> /\ rpc = "idle"
    /\ nReq > 0

\* C18: when the session key does not complete (complete() on a half-open
\* key, complete_remote on a passive accept) for a connection that passed
\* the block and self checks, the router sends Close and nothing else, is
\* back at its receive loop, and registry, buffer, sessions (inboxes
\* included) and tasks are unchanged.
C18_KeyFailureCloses ==
    [][LET ev == last'.ev IN
        (Routes(ev) /\ ~MustRefuse(ev) /\ ~ev.key_ok) =>
            /\ endpoint' = <<"Close">>
            /\ rpc' = "idle"
            /\ out' = <<>>
            /\ UNCHANGED <<dht, stables, connects, results, tmps, sessions, tasks>>
      ]_vars

\* complete() has just failed for a connection the node opened itself to a
\* remote Stable-relay peer: Close was sent and the session of that peer got
\* no DirectIncoming.
C18_Witness ==
    /\ last.is = "event" /\ ~MustRefuse(last.ev)
    /\ ~last.ev.key_ok /\ last.ev.is_self
    /\ endpoint = <<"Close">>
    /\ is_relay(stables, last.ev.id) # None
    /\ sessions[is_relay(stables, last.ev.id)].inbox = <<>>

\* The failed receipts owed for the queue q of pending (tid, data) pairs.
RECURSIVE SweepFail(_, _, _)
SweepFail(o, kind, q) ==
    IF q = <<>> THEN o
    ELSE SweepFail(OutDelivery(o, kind, Head(q)[1], FALSE, Head(q)[2]), kind, Tail(q))

\* C19: when the sweep drops the Pending entries of a peer, the application
\* gets at that moment exactly one failed Delivery for every nonzero tid
\* queued under the peer, the tids appended behind an outstanding request
\* included.
C19_SweepFails ==
    [][\A p \in Remotes :
        (TimerClear(p) /\ (connects[p] # <<>> \/ results[p] # <<>>)) =>
            out' = SweepFail(SweepFail(<<>>, "StableConnect", connects[p]),
                             "StableResult", results[p])
      ]_vars

\* The cadences the two timers are meant to have, in seconds.
CheckEvery == 10
ClearEvery == 60

\* C20: with a silent transport the health check runs every 10 s and the
\* buffer sweep every 60 s, neither delaying or cancelling the other:
\* whenever no timer is due, now \div 10 health checks and now \div 60 sweeps
\* have run (six checks per sweep).
C20_IndependentCadences ==
    (now < check_at /\ now < clear_at) =>
        /\ nCheck = now \div CheckEvery
        /\ nClear = now \div ClearEvery

\* C21: a health check sends the application NetworkLost iff the registry
\* (DHT and Stable) is empty at that moment, and nothing otherwise; it
\* changes neither registry nor buffer, sessions or tasks.
C21_LostIffEmpty ==
    [][nCheck' # nCheck =>
        /\ out' = IF (\A p \in PeerIds : dht[p] = None /\ stables[p] = NoStable)
                  THEN <<[type |-> "NetworkLost"]>> ELSE <<>>
        /\ UNCHANGED <<regVars, bufVars, sessions, tasks>>
      ]_vars

\* Two health checks have run, one with an empty registry (NetworkLost was
\* sent once) and one while a peer was held (nothing was sent), and a peer
\* is held now.
C21_Witness ==
    /\ nCheck = 2 /\ nLost = 1
    /\ \E p \in Remotes : InStable(stables, p)
    /\ \A p \in Remotes : ~InDht(dht, p)

\* C22: the dispatcher and the inbound router hold neither the registry
\* lock nor the buffer lock while they await a send on a session channel,
\* and never both locks at once.
C22_NoLockAcrossSend == held = {}

\* C23: however concurrent first uses of an unbound transport kind
\* interleave, trans_send starts one listener for the kind at most, every
\* message for the kind goes through the channel the map holds for it, and
\* for a kind that is bound no listener is started.
C23_OneListener ==
    /\ \A k \in TransportTypes : nListen[k] <= 1
    /\ nListen[MainTransport] = 0
    /\ \A c, d \in Callers :
         (tpc[c].kind = tpc[d].kind /\ tpc[c].chan # None /\ tpc[d].chan # None)
            => tpc[c].chan = tpc[d].chan

\* The session the registry holds for p has exited.
StaleEntry(p) ==
    \/ InStable(stables, p) /\ ~sessions[stables[p].sess].alive
    \/ ~InStable(stables, p) /\ InDht(dht, p) /\ ~sessions[dht[p]].alive

\* C24: when the dispatcher's send of a StableConnect or Data request to the
\* session of its target fails because the session has exited, the stale
\* entry is evicted from the registry and a request with tid # 0 yields a
\* failed Delivery.
C24_ClosedChannelEvicts ==
    [][LET r == last'.req IN
        (/\ Dispatches(r) /\ r.kind \in {"StableConnect", "Data"}
         /\ r.to # peer_id /\ StaleEntry(r.to)) =>
            /\ ~InDht(dht', r.to) /\ ~InStable(stables', r.to)
            /\ out' = IF r.tid # 0 THEN <<FailedReceipt(r)>> ELSE <<>>
      ]_vars


\* The session whose Global::upgrade returns in this step.
Upgraded(s) ==
    /\ s \in 1..Len(sessions) /\ sessions[s].op = "upgrade"
    /\ returned' = Ret("upgrade", sessions[s].peer, returned'.val = "Ok")
    /\ sessions'[s].op = "idle"

\* The Stable entry dht_to_stable(p) makes of p's DHT entry.
Promoted(p) == [sess |-> dht[p], direct |-> TRUE]

C26_TmpToDht ==
    [][/\ \A s \in SessIds : (s <= Len(sessions) /\ s <= Len(sessions')) =>
            LET p == sessions[s].peer
            IN  /\ (sessions[s].op = "idle" /\ sessions'[s].op = "tmp_to_dht") =>
                      /\ tmps[p] # NoStable /\ tmps[p].direct
                      /\ tmps'[p] = NoStable /\ sessions'[s].v = tmps[p]
                      /\ returned' = NoRet
                      /\ UNCHANGED regVars
                /\ (sessions[s].op = "tmp_to_dht" /\ sessions'[s].op = "idle") =>
                      /\ returned' = Ret("tmp_to_dht", p, add_dht_ok(dht, stables, p))
                      /\ IF returned'.val = "Ok"
                         THEN /\ dht'[p] = sessions[s].v.sess
                              /\ ~InStable(stables', p)
                         ELSE UNCHANGED regVars
                      /\ UNCHANGED tmps
       /\ (returned'.fn = "tmp_to_dht" /\ UNCHANGED sessions) =>
            LET p == returned'.arg
            IN  /\ returned'.val = "Err"
                /\ tmps[p] = NoStable \/ ~tmps[p].direct
                /\ tmps'[p] = NoStable
                /\ UNCHANGED regVars
      ]_vars

\* tmp_to_dht has returned Ok: the peer is DHT-only and has no Tmp entry.
C26_Witness ==
    /\ returned.fn = "tmp_to_dht" /\ returned.val = "Ok"
    /\ InDht(dht, returned.arg) /\ ~InStable(stables, returned.arg)
    /\ tmps[returned.arg] = NoStable

\* C27: every Delivery the dispatcher emits for the request in hand, and
\* the receipt prefix it hands to a connection task, is exactly the first
\* min(len(data), delivery_length) bytes of the request's payload, in
\* order; with delivery_length = 0 it is empty.
C27_DeliveryPrefix ==
    [][(dpc' # dpc \/ last'.is = "request") =>
        LET r == IF dpc = "idle" THEN last'.req ELSE dreq
            n == IF Len(r.data) < delivery_length THEN Len(r.data) ELSE delivery_length
            IsPrefix(d) ==
                /\ Len(d) = n
                /\ \A j \in 1..n : d[j] = r.data[j]
                /\ delivery_length = 0 => d = <<>>
        IN  /\ \A i \in 1..Len(out') :
                  out'[i].type = "Delivery" => IsPrefix(out'[i].data)
            /\ \A t \in tasks' \ tasks : IsPrefix(t.delivery)
      ]_vars

\* The dispatcher has just answered a tracked request with a Delivery whose
\* prefix is a proper, non-empty part of the payload.
C27_Witness ==
    /\ last.is = "request" /\ last.req.tid # 0
    /\ Len(out) >= 1 /\ out[1].type = "Delivery"
    /\ out[1].data # <<>> /\ Len(out[1].data) < Len(last.req.data)

\* C28: for every PeerId id, to_hex(id) is 64 lower-case hex characters and
\* from_hex(to_hex(id)) = Ok(id); from_bytes(as_bytes(id)) = Ok(id); and
\* from_bytes returns an error for every slice whose length is not 32.
C28_PeerIdRoundTrip ==
    /\ returned.fn = "to_hex" =>
          /\ Len(returned.val) = 64
          /\ \A i \in 1..Len(returned.val) :
                \E d \in 1..16 : returned.val[i] = LowerDigits[d]
          /\ from_hex(returned.val) = Ok(returned.arg)
    /\ returned.fn = "as_bytes" => from_bytes(returned.val) = Ok(returned.arg)
    /\ returned.fn = "from_bytes" =>
          IF Len(returned.arg) = 32
          THEN returned.val = Ok(returned.arg)
          ELSE ~returned.val.ok

\* to_hex has encoded an id whose first byte is 0x0a: the group is padded
\* and in lower case.
C28_Witness ==
    /\ returned.fn = "to_hex" /\ returned.arg[1] = 10
    /\ returned.val[1] = "0" /\ returned.val[2] = "a"
    /\ from_hex(returned.val).ok

\* The characters 0-9, a-f, A-F.
IsHexDigit(ch) == \E d \in 1..16 : ch = LowerDigits[d] \/ ch = UpperDigits[d]

\* C29: from_hex returns Ok only for inputs of exactly 64 hex digits: it
\* returns an error for every input whose length is not 64 and for every
\* 64-character input with a character outside 0-9, a-f, A-F.
C29_FromHexRejects ==
    returned.fn = "from_hex" =>
        (returned.val.ok <=>
            /\ Len(returned.arg) = 64
            /\ \A i \in 1..Len(returned.arg) : IsHexDigit(returned.arg[i]))

\* C30: from_byte(to_byte(t)) = Ok(t) with to_byte mapping QUIC, TCP, RTP,
\* UDT to 0, 1, 2, 3; from_byte returns an error for every byte above 3;
\* from_str(to_str(t)) = t, and every unrecognised string maps to QUIC.
C30_TransportRoundTrip ==
    /\ returned.fn = "to_byte" =>
          /\ returned.val = CASE returned.arg = "QUIC" -> 0 [] returned.arg = "TCP" -> 1
                               [] returned.arg = "RTP" -> 2 [] returned.arg = "UDT" -> 3
          /\ from_byte(returned.val) = Ok(returned.arg)
    /\ returned.fn = "from_byte" =>
          IF returned.arg > 3
          THEN ~returned.val.ok
          ELSE returned.val.ok /\ to_byte(returned.val.v) = returned.arg
    /\ returned.fn = "to_str" => from_str(returned.val) = returned.arg
    /\ returned.fn = "from_str" =>
          (returned.arg \notin {"quic", "tcp", "rtp", "udt"} => returned.val = "QUIC")

\* from_byte has refused the byte 4.
C30_Witness ==
    /\ returned.fn = "from_byte" /\ returned.arg = 4
    /\ ~returned.val.ok

\* C31: while the inbound task runs, the health check and the buffer sweep
\* each fire infinitely often, whatever transport events arrive and
\* whichever timer branch wins select!.
C31_TimersFire ==
    /\ []<><<FutureCheck>>_vars
    /\ []<><<FutureClear>>_vars

\* Once transport events stop arriving, both timers do fire for ever.
QuietTimersFire == (<>[][~RouterRecv]_vars) => C31_TimersFire

\* A live session of p is inside Global::upgrade or Global::tmp_to_dht with
\* p's Tmp entry taken and the registry not yet written.
Promoting(p) ==
    \E s \in 1..Len(sessions) :
        /\ sessions[s].alive /\ sessions[s].peer = p
        /\ sessions[s].op \in {"upgrade", "tmp_to_dht"}
        /\ sessions[s].v # NoStable

\* C32: while a peer with a live session is being moved from Tmp into the
\* registry, the dispatcher's Tmp lookup for a StableConnect or StableResult
\* to that peer finds the session and hands it the request: the dispatcher
\* does not go on to register a Pending entry and spawn a connection.
C32_PromotionAtomic ==
    [][(dpc \in {"sc_tmp", "sr_tmp"} /\ dpc' # dpc /\ Promoting(dreq.to)) =>
          /\ dpc' = "idle"
          /\ \E s \in 1..Len(sessions) :
                /\ sessions[s].peer = dreq.to
                /\ sessions'[s].inbox = Append(sessions[s].inbox, ReqMsg(dreq))
      ]_vars

\* The dispatcher waits in a send to session s, whose inbox is full, with the
\* peer_list read guard alive, and s waits for peer_list.write() inside a
\* Global call: neither can take another step.
Stuck(s) ==
    /\ dpc = "sending" /\ dss = s /\ Full(s)
    /\ sessions[s].op \in {"upgrade", "tmp_to_dht", "stable_to_dht"}

\* C33: the dispatcher and the session tasks never deadlock: no reachable
\* state has the dispatcher blocked on a full session inbox while it holds
\* the registry lock that the receiving session is waiting for.
C33_NoDeadlock == \A s \in SessIds : ~Stuck(s)

\* A stuck pair stays stuck whatever the other tasks do.
StuckStays == [][\A s \in SessIds : Stuck(s) => Stuck(s)']_vars

====
